---- MODULE Spec2Model ----
(***************************************************************************)
(* Model of the cryptex game synchronisation engine (api/game.ts).         *)
(*                                                                         *)
(* The store holds two documents, the game state and the player roster.    *)
(* Every POST request reads both documents, mutates its private copies     *)
(* and writes back whole documents.  The specifications:                  *)
(*   Spec      requests applied one at a time (each finishes before the    *)
(*             next starts); SpecTime adds the wall clock, SpecRace,       *)
(*             SpecHints, SpecCheck and SpecPlay start from a game set up  *)
(*             for a race, the hints, check and a whole playthrough;       *)
(*   SpecConc  request handlers interleaved at every store read and write, *)
(*             as the event loop schedules them;                           *)
(*   SpecLock  callers of withLock;                                        *)
(*   SpecClient a waiting player's useGameSync hook observing the server.  *)
(*   SpecPoll  the polling hook alone, with its back-off;                  *)
(*   SpecPush  the SSE connections and the requests that push to them;     *)
(*   SpecReconnect  gameStore.checkReconnect after a page reload;          *)
(*   SpecAdmin, SpecReject, SpecFail, SpecRead, SpecStop, SpecRoster,      *)
(*   SpecRounds  sequential requests: the admin binding, the refusals,     *)
(*             store writes and reads that fail, stop, the roster and the  *)
(*             round fields.                                               *)
(*                                                                         *)
(* Abstractions: fields no property reads (id, createdAt, adminCreatedAt,  *)
(* adminConnectedAt, finishedAt, round names/questions) are left out; an   *)
(* absent document reads as its default, so kvDelete is the write of the   *)
(* default; the elapsed time of a round is an input of complete-round      *)
(* (timeSeconds or the wall-clock fallback).                               *)
(***************************************************************************)
EXTENDS Integers, Sequences, FiniteSets, TLC

\* ------------------------------------------------------------------ bounds
Users == {"A", "B"}
TimeUsers == {"A"}
RaceUsers == {"A", "B", "C"}
Avatars == {"", "cat"}
Codes == {<<>>, <<"a", "b">>, <<"a", "b", "c", "d">>}
RoundIds == {1, 7}
Times == {7}
TickSteps == {172800000}
MaxNow == 345600000
HintRoundIds == {0, 1, 6, 7}
PutRoundIds == {0, 1, 7}
PutHintCounts == {0 - 1, 1, 4}
CheckRoundIds == {0, 1, 2, 7}
PlayUsers == {"A"}
PlayRoundIds == 1..6
Attempts ==
  {<<>>, <<"a", "u", "r", "o", "r", "e">>, <<"E", "N", "I", "G", "M", "E">>,
   <<"a", "b", "a", "a", "a", "a">>}
PutSolutions == {<<FALSE, <<>>>>, <<TRUE, <<>>>>, <<TRUE, <<"a", "b", "1">>>>}
MaxErrors == 4
Conns == {1}
NSlots == 2
MaxRequests == 2
NCallers == 4

\* ------------------------------------------------------- program constants
NumRounds == 6
TTL == 48 * 60 * 60 * 1000
NullTime == 0 - 1
NoCode == <<>>
NoSession == ""
SolutionLen == 6
CacheMs == 1000
BASE_POLL_INTERVAL == 2000
MAX_POLL_INTERVAL == 30000
MaxMultiplier == 6
MaxRevealed == 3
NoHints == 0 - 1
NoString == <<>>
NoSolution == <<FALSE, NoString>>

Rounds == 1..NumRounds

\* --------------------------------------------------------------- helpers
LowerLetters ==
  <<"a", "b", "c", "d", "e", "f", "g", "h", "i", "j", "k", "l", "m",
    "n", "o", "p", "q", "r", "s", "t", "u", "v", "w", "x", "y", "z">>
UpperLetters ==
  <<"A", "B", "C", "D", "E", "F", "G", "H", "I", "J", "K", "L", "M",
    "N", "O", "P", "Q", "R", "S", "T", "U", "V", "W", "X", "Y", "Z">>

\* A string is a sequence of one-character strings.
UpperChar(c) ==
  IF \E i \in DOMAIN LowerLetters : LowerLetters[i] = c
  THEN UpperLetters[CHOOSE i \in DOMAIN LowerLetters : LowerLetters[i] = c]
  ELSE c

toUpperCase(s) == [i \in DOMAIN s |-> UpperChar(s[i])]

includes(seq, x) == \E i \in DOMAIN seq : seq[i] = x

indexOf(seq, x) ==
  IF includes(seq, x)
  THEN (CHOOSE i \in DOMAIN seq : seq[i] = x /\ \A j \in 1..(i - 1) : seq[j] # x) - 1
  ELSE 0 - 1

filterOut(seq, x) == SelectSeq(seq, LAMBDA e : e # x)

Count(seq, x) == Cardinality({i \in DOMAIN seq : seq[i] = x})

NoPlayers == [u \in {} |-> 0]

\* String.prototype.padEnd(n, c)
RECURSIVE padEnd(_, _, _)
padEnd(s, n, c) == IF Len(s) >= n THEN s ELSE padEnd(Append(s, c), n, c)

\* String.prototype.slice(0, n)
slice(s, n) == IF Len(s) <= n THEN s ELSE SubSeq(s, 1, n)

\* replace(/[^A-Z]/g, '')
keepAZ(s) == SelectSeq(s, LAMBDA c : \E i \in DOMAIN UpperLetters : UpperLetters[i] = c)

\* PUT: the normalisation of updates.solution (line 1089)
normalizeSolution(s) == padEnd(slice(keepAZ(toUpperCase(s)), SolutionLen), SolutionLen, "A")

\* ------------------------------------------------------------- documents
\* DEFAULT_ROUNDS: of a round the model keeps its solution and the number of
\* its authored hints (NoHints when the hints field is null).
DefaultSolutions ==
  << <<"A", "U", "R", "O", "R", "E">>, <<"E", "N", "I", "G", "M", "E">>,
     <<"T", "R", "E", "S", "O", "R">>, <<"E", "S", "P", "R", "I", "T">>,
     <<"F", "O", "R", "C", "E", "S">>, <<"V", "A", "I", "N", "C", "U">> >>

DEFAULT_ROUNDS == [r \in Rounds |-> [solution |-> DefaultSolutions[r], hints |-> 3]]

createDefaultGameState ==
  [rounds |-> DEFAULT_ROUNDS, isStarted |-> FALSE, startedAt |-> NullTime, gameMode |-> "free",
   currentRound |-> 0, roundActive |-> FALSE, roundWinners |-> <<>>,
   revealedHints |-> [r \in Rounds |-> 0], resetAt |-> NullTime,
   accessCode |-> NoCode, isActive |-> FALSE, expiresAt |-> NullTime,
   adminSessionId |-> NoSession]

createPlayer(t, avatar) ==
  [joinedAt |-> t, currentRound |-> 0,
   roundsCompleted |-> [r \in Rounds |-> FALSE],
   roundTimes |-> [r \in Rounds |-> 0],
   isFinished |-> FALSE, hasFoundCurrentRound |-> FALSE, avatar |-> avatar]

\* --------------------------------------------------------------- replies
\* correct is "" when the reply has no correct field; solution is NoString
\* when it has no solution field.
Ok == [status |-> 200, error |-> "", position |-> 0, isFinished |-> FALSE,
       correct |-> "", solution |-> NoString]
Err(code, e) == [Ok EXCEPT !.status = code, !.error = e]

\* The outcome of the synchronous part of a handler: the private copies
\* after mutation, the reply, and the store writes it goes on to await, in
\* order ("G" setGameState, "P" setPlayers, "dG"/"dP" kvDelete).
Out(gs, ps, resp, writes) == [gs |-> gs, players |-> ps, resp |-> resp, writes |-> writes]

\* A PUT body: updates tells whether it has an updates object, hints is
\* Unset when updates has no hints field, hasSolution tells whether updates
\* has a solution field and newSolution is its value (possibly '').
\* sessionId is the field admin-login reads.
Unset == 0 - 2
Body == [username |-> "", avatar |-> "", code |-> <<>>, mode |-> "",
         roundId |-> 0, time |-> 0, adminSessionId |-> NoSession,
         solution |-> NoString, updates |-> FALSE, hints |-> Unset,
         hasSolution |-> FALSE, newSolution |-> NoString,
         sessionId |-> NoSession]

\* -------------------------------------------------------------- handlers
\* Each operator is the synchronous part of one case of the POST handler,
\* applied to the private copies gs and ps read at lines 491-492, with body
\* b and wall-clock time t.

\* SetModeOp as it would be if the mode switch left the round open.
SetModeOpKeeping(gs, ps, b, t) ==
  IF b.mode \notin {"free", "controlled"}
  THEN Out(gs, ps, Err(400, "InvalidMode"), <<>>)
  ELSE Out([gs EXCEPT !.gameMode = b.mode, !.roundWinners = <<>>,
                      !.revealedHints = [r \in Rounds |-> 0]],
           [u \in DOMAIN ps |->
              [ps[u] EXCEPT !.currentRound = 0, !.hasFoundCurrentRound = FALSE,
                            !.roundsCompleted = [r \in Rounds |-> FALSE]]],
           Ok, <<"P", "G">>)

\* case 'set-mode'
SetModeOp(gs, ps, b, t) ==
  IF b.mode \notin {"free", "controlled"}
  THEN Out(gs, ps, Err(400, "InvalidMode"), <<>>)
  ELSE Out([gs EXCEPT !.gameMode = b.mode, !.currentRound = 0,
                      !.roundActive = FALSE, !.roundWinners = <<>>,
                      !.revealedHints = [r \in Rounds |-> 0]],
           [u \in DOMAIN ps |->
              [ps[u] EXCEPT !.currentRound = 0, !.hasFoundCurrentRound = FALSE,
                            !.roundsCompleted = [r \in Rounds |-> FALSE]]],
           Ok, <<"P", "G">>)

\* case 'start'
StartOp(gs, ps, b, t) ==
  IF gs.isStarted
  THEN Out(gs, ps, Err(400, "GameAlreadyStarted"), <<>>)
  ELSE IF gs.gameMode = "free"
       THEN Out([gs EXCEPT !.isStarted = TRUE, !.startedAt = t],
                [u \in DOMAIN ps |-> [ps[u] EXCEPT !.currentRound = 0]],
                Ok, <<"P", "G">>)
       ELSE Out([gs EXCEPT !.isStarted = TRUE, !.startedAt = t,
                           !.currentRound = 0, !.roundActive = FALSE,
                           !.roundWinners = <<>>],
                ps, Ok, <<"G">>)

\* LaunchRoundOp as it would be if the refusal after the last round also
\* closed the round.
LaunchRoundOpClosing(gs, ps, b, t) ==
  IF gs.gameMode # "controlled"
  THEN Out(gs, ps, Err(400, "WrongMode"), <<>>)
  ELSE IF ~gs.isStarted
  THEN Out(gs, ps, Err(400, "GameNotStarted"), <<>>)
  ELSE IF gs.currentRound + 1 > NumRounds
  THEN Out([gs EXCEPT !.roundActive = FALSE], ps, Err(400, "AllRoundsDone"), <<"G">>)
  ELSE Out([gs EXCEPT !.currentRound = gs.currentRound + 1,
                      !.roundActive = TRUE, !.roundWinners = <<>>],
           [u \in DOMAIN ps |-> [ps[u] EXCEPT !.hasFoundCurrentRound = FALSE]],
           Ok, <<"G", "P">>)

\* case 'launch-round'
LaunchRoundOp(gs, ps, b, t) ==
  IF gs.gameMode # "controlled"
  THEN Out(gs, ps, Err(400, "WrongMode"), <<>>)
  ELSE IF ~gs.isStarted
  THEN Out(gs, ps, Err(400, "GameNotStarted"), <<>>)
  ELSE IF gs.currentRound + 1 > NumRounds
  THEN Out(gs, ps, Err(400, "AllRoundsDone"), <<>>)
  ELSE Out([gs EXCEPT !.currentRound = gs.currentRound + 1,
                      !.roundActive = TRUE, !.roundWinners = <<>>],
           [u \in DOMAIN ps |-> [ps[u] EXCEPT !.hasFoundCurrentRound = FALSE]],
           Ok, <<"G", "P">>)

\* EndRoundOp as it would be if the last round marked every player finished.
EndRoundOpAll(gs, ps, b, t) ==
  IF gs.gameMode # "controlled"
  THEN Out(gs, ps, Err(400, "WrongMode"), <<>>)
  ELSE IF gs.currentRound >= NumRounds
       THEN Out([gs EXCEPT !.roundActive = FALSE],
                [u \in DOMAIN ps |-> [ps[u] EXCEPT !.isFinished = TRUE]],
                Ok, <<"P", "G">>)
       ELSE Out([gs EXCEPT !.roundActive = FALSE], ps, Ok, <<"G">>)

\* case 'end-round'
EndRoundOp(gs, ps, b, t) ==
  IF gs.gameMode # "controlled"
  THEN Out(gs, ps, Err(400, "WrongMode"), <<>>)
  ELSE IF gs.currentRound >= NumRounds
       THEN Out([gs EXCEPT !.roundActive = FALSE],
                [u \in DOMAIN ps |->
                   IF \A r \in Rounds : ps[u].roundsCompleted[r]
                   THEN [ps[u] EXCEPT !.isFinished = TRUE]
                   ELSE ps[u]],
                Ok, <<"P", "G">>)
       ELSE Out([gs EXCEPT !.roundActive = FALSE], ps, Ok, <<"G">>)

\* RevealHintOp as it would be without the cap of three hints.
RevealHintOpNoCap(gs, ps, b, t) ==
  IF b.roundId = 0
  THEN Out(gs, ps, Err(400, "RoundIdRequired"), <<>>)
  ELSE IF b.roundId - 1 < 0 \/ b.roundId - 1 >= NumRounds
  THEN Out(gs, ps, Err(400, "InvalidRound"), <<>>)
  ELSE LET round == gs.rounds[b.roundId]
           currentHints == gs.revealedHints[b.roundId]
       IN IF round.hints = NoHints \/ round.hints <= currentHints
          THEN Out(gs, ps, Err(400, "NoMoreHints"), <<>>)
          ELSE Out([gs EXCEPT !.revealedHints[b.roundId] = currentHints + 1],
                   ps, Ok, <<"G">>)

\* case 'reveal-hint'
RevealHintOp(gs, ps, b, t) ==
  IF b.roundId = 0
  THEN Out(gs, ps, Err(400, "RoundIdRequired"), <<>>)
  ELSE IF b.roundId - 1 < 0 \/ b.roundId - 1 >= NumRounds
  THEN Out(gs, ps, Err(400, "InvalidRound"), <<>>)
  ELSE LET round == gs.rounds[b.roundId]
           currentHints == gs.revealedHints[b.roundId]
       IN IF currentHints >= MaxRevealed \/ round.hints = NoHints
             \/ round.hints <= currentHints
          THEN Out(gs, ps, Err(400, "NoMoreHints"), <<>>)
          ELSE Out([gs EXCEPT !.revealedHints[b.roundId] = currentHints + 1],
                   ps, Ok, <<"G">>)

\* StopOp as it would be if stopping rewound the rounds.
StopOpRewinding(gs, ps, b, t) ==
  Out([gs EXCEPT !.isStarted = FALSE, !.roundActive = FALSE,
                 !.currentRound = 0, !.roundWinners = <<>>], ps, Ok, <<"G">>)

\* case 'stop'
StopOp(gs, ps, b, t) ==
  Out([gs EXCEPT !.isStarted = FALSE, !.roundActive = FALSE], ps, Ok, <<"G">>)

\* case 'reset'
ResetOp(gs, ps, b, t) ==
  Out([createDefaultGameState EXCEPT !.resetAt = t], NoPlayers, Ok,
      <<"dG", "dP", "G", "P">>)

\* case 'admin-login'
AdminLoginOp(gs, ps, b, t) ==
  IF b.sessionId = NoSession
  THEN Out(gs, ps, Err(400, "SessionIdRequired"), <<>>)
  ELSE IF gs.adminSessionId # NoSession /\ gs.adminSessionId # b.sessionId
  THEN Out(gs, ps, Err(403, "AdminAlreadyConnected"), <<>>)
  ELSE Out([gs EXCEPT !.adminSessionId = b.sessionId], ps, Ok, <<"G">>)

\* case 'admin-logout'
AdminLogoutOp(gs, ps, b, t) ==
  Out([gs EXCEPT !.isActive = FALSE, !.isStarted = FALSE,
                 !.adminSessionId = NoSession, !.resetAt = t],
      NoPlayers, Ok, <<"G", "P">>)

\* case 'create-game'
CreateGameOp(gs, ps, b, t) ==
  IF b.code = <<>> \/ Len(b.code) < 4
  THEN Out(gs, ps, Err(400, "CodeTooShort"), <<>>)
  ELSE Out([createDefaultGameState EXCEPT
              !.accessCode = toUpperCase(b.code), !.isActive = TRUE,
              !.expiresAt = t + TTL, !.adminSessionId = b.adminSessionId],
           NoPlayers, Ok, <<"G", "P">>)

\* ValidateCodeOp as it would be if the code were compared before the expiry.
ValidateCodeOpCodeFirst(gs, ps, b, t) ==
  IF b.code = <<>>
  THEN Out(gs, ps, Err(400, "CodeRequired"), <<>>)
  ELSE IF gs.accessCode = NoCode
  THEN Out(gs, ps, Err(404, "NoActiveGame"), <<>>)
  ELSE IF toUpperCase(b.code) # gs.accessCode
  THEN Out(gs, ps, Err(401, "InvalidCode"), <<>>)
  ELSE IF gs.expiresAt # NullTime /\ t > gs.expiresAt
  THEN Out(gs, ps, Err(410, "GameExpired"), <<>>)
  ELSE Out(gs, ps, Ok, <<>>)

\* case 'validate-code'
ValidateCodeOp(gs, ps, b, t) ==
  IF b.code = <<>>
  THEN Out(gs, ps, Err(400, "CodeRequired"), <<>>)
  ELSE IF gs.accessCode = NoCode
  THEN Out(gs, ps, Err(404, "NoActiveGame"), <<>>)
  ELSE IF gs.expiresAt # NullTime /\ t > gs.expiresAt
  THEN Out(gs, ps, Err(410, "GameExpired"), <<>>)
  ELSE IF toUpperCase(b.code) # gs.accessCode
  THEN Out(gs, ps, Err(401, "InvalidCode"), <<>>)
  ELSE Out(gs, ps, Ok, <<>>)

\* JoinOp as it would be if a re-join built a fresh record.
JoinOpFresh(gs, ps, b, t) ==
  IF b.username = ""
  THEN Out(gs, ps, Err(400, "UsernameRequired"), <<>>)
  ELSE IF gs.accessCode = NoCode
  THEN Out(gs, ps, Err(404, "NoActiveGame"), <<>>)
  ELSE IF gs.expiresAt # NullTime /\ t > gs.expiresAt
  THEN Out(gs, ps, Err(410, "GameExpired"), <<>>)
  ELSE IF gs.isStarted /\ b.username \notin DOMAIN ps
  THEN Out(gs, ps, Err(403, "GameAlreadyStarted"), <<>>)
  ELSE Out(gs,
           [u \in DOMAIN ps \cup {b.username} |->
              IF u = b.username THEN createPlayer(t, b.avatar) ELSE ps[u]],
           Ok, <<"P">>)

\* JoinOp as it would be without the late-joiner test.
JoinOpLate(gs, ps, b, t) ==
  IF b.username = ""
  THEN Out(gs, ps, Err(400, "UsernameRequired"), <<>>)
  ELSE IF gs.accessCode = NoCode
  THEN Out(gs, ps, Err(404, "NoActiveGame"), <<>>)
  ELSE IF gs.expiresAt # NullTime /\ t > gs.expiresAt
  THEN Out(gs, ps, Err(410, "GameExpired"), <<>>)
  ELSE IF b.username \notin DOMAIN ps
  THEN Out(gs,
           [u \in DOMAIN ps \cup {b.username} |->
              IF u = b.username THEN createPlayer(t, b.avatar) ELSE ps[u]],
           Ok, <<"P">>)
  ELSE IF b.avatar # ""
  THEN Out(gs, [ps EXCEPT ![b.username].avatar = b.avatar], Ok, <<"P">>)
  ELSE Out(gs, ps, Ok, <<"P">>)

\* case 'join'
JoinOp(gs, ps, b, t) ==
  IF b.username = ""
  THEN Out(gs, ps, Err(400, "UsernameRequired"), <<>>)
  ELSE IF gs.accessCode = NoCode
  THEN Out(gs, ps, Err(404, "NoActiveGame"), <<>>)
  ELSE IF gs.expiresAt # NullTime /\ t > gs.expiresAt
  THEN Out(gs, ps, Err(410, "GameExpired"), <<>>)
  ELSE IF gs.isStarted /\ b.username \notin DOMAIN ps
  THEN Out(gs, ps, Err(403, "GameAlreadyStarted"), <<>>)
  ELSE IF b.username \notin DOMAIN ps
  THEN Out(gs,
           [u \in DOMAIN ps \cup {b.username} |->
              IF u = b.username THEN createPlayer(t, b.avatar) ELSE ps[u]],
           Ok, <<"P">>)
  ELSE IF b.avatar # ""
  THEN Out(gs, [ps EXCEPT ![b.username].avatar = b.avatar], Ok, <<"P">>)
  ELSE Out(gs, ps, Ok, <<"P">>)

\* case 'heartbeat'
HeartbeatOp(gs, ps, b, t) ==
  IF b.username = ""
  THEN Out(gs, ps, Err(400, "UsernameRequired"), <<>>)
  ELSE IF b.username \in DOMAIN ps
  THEN Out(gs, ps, Ok, <<>>)
  ELSE IF gs.isActive /\ ~gs.isStarted
  THEN Out(gs,
           [u \in DOMAIN ps \cup {b.username} |->
              IF u = b.username THEN createPlayer(t, "") ELSE ps[u]],
           Ok, <<"P">>)
  ELSE Out(gs, ps, Err(404, "PlayerNotFound"), <<>>)

\* case 'reconnect'
ReconnectOp(gs, ps, b, t) ==
  IF b.username = ""
  THEN Out(gs, ps, Err(400, "UsernameRequired"), <<>>)
  ELSE IF b.username \in DOMAIN ps
  THEN Out(gs, ps, Ok, <<>>)
  ELSE IF gs.accessCode # NoCode
  THEN Out(gs,
           [u \in DOMAIN ps \cup {b.username} |->
              IF u = b.username THEN createPlayer(t, "") ELSE ps[u]],
           Ok, <<"P">>)
  ELSE Out(gs, ps, Err(404, "PlayerNotFound"), <<>>)

\* case 'end-game'
EndGameOp(gs, ps, b, t) ==
  Out([gs EXCEPT !.isActive = FALSE, !.resetAt = t], ps, Ok, <<"G">>)

\* case 'leave'
LeaveOp(gs, ps, b, t) ==
  IF b.username # "" /\ b.username \in DOMAIN ps
  THEN Out([gs EXCEPT !.roundWinners = filterOut(gs.roundWinners, b.username)],
           [u \in DOMAIN ps \ {b.username} |-> ps[u]],
           Ok, <<"P", "G">>)
  ELSE Out(gs, ps, Ok, <<>>)

\* CheckOp as it would be without the roundActive test.
CheckOpAnyTime(gs, ps, b, t) ==
  IF b.roundId = 0 \/ b.solution = NoString
  THEN Out(gs, ps, Err(400, "MissingFields"), <<>>)
  ELSE IF gs.gameMode = "controlled" /\ b.roundId # gs.currentRound
  THEN Out(gs, ps, Err(400, "NotCurrentRound"), <<>>)
  ELSE IF b.roundId \notin Rounds
  THEN Out(gs, ps, Err(404, "RoundNotFound"), <<>>)
  ELSE LET round == gs.rounds[b.roundId]
           isCorrect == toUpperCase(b.solution) = round.solution
       IN Out(gs, ps,
              [Ok EXCEPT !.correct = IF isCorrect THEN "true" ELSE "false",
                         !.solution = IF isCorrect THEN round.solution ELSE NoString],
              <<>>)

\* CheckOp as it would be if the reply always carried the solution.
CheckOpLeaky(gs, ps, b, t) ==
  IF b.roundId = 0 \/ b.solution = NoString
  THEN Out(gs, ps, Err(400, "MissingFields"), <<>>)
  ELSE IF gs.gameMode = "controlled" /\ b.roundId # gs.currentRound
  THEN Out(gs, ps, Err(400, "NotCurrentRound"), <<>>)
  ELSE IF gs.gameMode = "controlled" /\ ~gs.roundActive
  THEN Out(gs, ps, Err(400, "RoundNotActive"), <<>>)
  ELSE IF b.roundId \notin Rounds
  THEN Out(gs, ps, Err(404, "RoundNotFound"), <<>>)
  ELSE LET round == gs.rounds[b.roundId]
           isCorrect == toUpperCase(b.solution) = round.solution
       IN Out(gs, ps,
              [Ok EXCEPT !.correct = IF isCorrect THEN "true" ELSE "false",
                         !.solution = round.solution],
              <<>>)

\* case 'check'
CheckOp(gs, ps, b, t) ==
  IF b.roundId = 0 \/ b.solution = NoString
  THEN Out(gs, ps, Err(400, "MissingFields"), <<>>)
  ELSE IF gs.gameMode = "controlled" /\ b.roundId # gs.currentRound
  THEN Out(gs, ps, Err(400, "NotCurrentRound"), <<>>)
  ELSE IF gs.gameMode = "controlled" /\ ~gs.roundActive
  THEN Out(gs, ps, Err(400, "RoundNotActive"), <<>>)
  ELSE IF b.roundId \notin Rounds
  THEN Out(gs, ps, Err(404, "RoundNotFound"), <<>>)
  ELSE LET round == gs.rounds[b.roundId]
           isCorrect == toUpperCase(b.solution) = round.solution
       IN Out(gs, ps,
              [Ok EXCEPT !.correct = IF isCorrect THEN "true" ELSE "false",
                         !.solution = IF isCorrect THEN round.solution ELSE NoString],
              <<>>)

\* pushWinner as it would be without the includes test.
pushWinnerAlways(winners, u) == Append(winners, u)

\* pushWinner as it would be if it inserted at the front.
pushWinnerFront(winners, u) ==
  IF includes(winners, u) THEN winners ELSE <<u>> \o winners

\* case 'complete-round', controlled branch: append the winner once
pushWinner(winners, u) ==
  IF includes(winners, u) THEN winners ELSE Append(winners, u)

\* case 'complete-round'
CompleteRoundOp(gs, ps, b, t) ==
  IF b.username = ""
  THEN Out(gs, ps, Err(400, "MissingFields"), <<>>)
  ELSE IF b.username \notin DOMAIN ps
  THEN Out(gs, ps, Err(404, "PlayerNotFound"), <<>>)
  ELSE IF b.roundId - 1 < 0 \/ b.roundId - 1 >= NumRounds
  THEN Out(gs, ps, Err(400, "InvalidRound"), <<>>)
  ELSE
    LET u == b.username
        p1 == [ps[u] EXCEPT !.roundsCompleted[b.roundId] = TRUE,
                            !.roundTimes[b.roundId] = b.time]
    IN IF gs.gameMode = "controlled"
       THEN LET w == pushWinner(gs.roundWinners, u)
            IN Out([gs EXCEPT !.roundWinners = w],
                   [ps EXCEPT ![u] = [p1 EXCEPT !.hasFoundCurrentRound = TRUE]],
                   [Ok EXCEPT !.position = indexOf(w, u) + 1],
                   <<"P", "G">>)
       ELSE IF \A r \in Rounds : p1.roundsCompleted[r]
            THEN Out(gs, [ps EXCEPT ![u] = [p1 EXCEPT !.isFinished = TRUE]],
                     [Ok EXCEPT !.isFinished = TRUE], <<"P">>)
            ELSE Out(gs, [ps EXCEPT ![u] = [p1 EXCEPT !.currentRound = b.roundId]],
                     [Ok EXCEPT !.isFinished = p1.isFinished], <<"P">>)

\* switch (action)
Handle(action, gs, ps, b, t) ==
  CASE action = "set-mode" -> SetModeOp(gs, ps, b, t)
    [] action = "start" -> StartOp(gs, ps, b, t)
    [] action = "launch-round" -> LaunchRoundOp(gs, ps, b, t)
    [] action = "end-round" -> EndRoundOp(gs, ps, b, t)
    [] action = "reveal-hint" -> RevealHintOp(gs, ps, b, t)
    [] action = "stop" -> StopOp(gs, ps, b, t)
    [] action = "reset" -> ResetOp(gs, ps, b, t)
    [] action = "admin-login" -> AdminLoginOp(gs, ps, b, t)
    [] action = "admin-logout" -> AdminLogoutOp(gs, ps, b, t)
    [] action = "create-game" -> CreateGameOp(gs, ps, b, t)
    [] action = "validate-code" -> ValidateCodeOp(gs, ps, b, t)
    [] action = "join" -> JoinOp(gs, ps, b, t)
    [] action = "heartbeat" -> HeartbeatOp(gs, ps, b, t)
    [] action = "reconnect" -> ReconnectOp(gs, ps, b, t)
    [] action = "end-game" -> EndGameOp(gs, ps, b, t)
    [] action = "leave" -> LeaveOp(gs, ps, b, t)
    [] action = "check" -> CheckOp(gs, ps, b, t)
    [] action = "complete-round" -> CompleteRoundOp(gs, ps, b, t)
    [] OTHER -> Out(gs, ps, Err(400, "InvalidAction"), <<>>)

\* PUT: update one round of the configuration (1075-1100); the roster is
\* neither read nor written.
PutOp(gs, ps, b, t) ==
  IF b.roundId = 0 \/ ~b.updates
  THEN Out(gs, ps, Err(400, "MissingFields"), <<>>)
  ELSE IF b.roundId \notin Rounds
  THEN Out(gs, ps, Err(404, "RoundNotFound"), <<>>)
  ELSE LET round == gs.rounds[b.roundId]
           r1 == IF b.hints = Unset THEN round ELSE [round EXCEPT !.hints = b.hints]
           r2 == IF ~b.hasSolution THEN r1
                 ELSE IF b.newSolution = NoString
                 THEN [r1 EXCEPT !.solution = b.newSolution]
                 ELSE [r1 EXCEPT !.solution = normalizeSolution(b.newSolution)]
       IN Out([gs EXCEPT !.rounds[b.roundId] = r2], ps, Ok, <<"G">>)

\* The cases that await broadcastLatestState before replying.
Broadcasting ==
  {"set-mode", "start", "launch-round", "end-round", "reveal-hint", "stop",
   "reset", "admin-logout", "leave", "complete-round"}

\* The request reaches the call of broadcastLatestState of its case: the
\* case has one, the request was not refused, and leave found its player.
broadcasts(action, o) ==
  /\ action \in Broadcasting
  /\ o.resp.status = 200
  /\ action = "leave" => o.writes # <<>>

\* broadcastLatestState / broadcastEvent: every registered connection is
\* sent the snapshot read from the store st; conns maps each registered
\* connection to the last snapshot sent to it.
broadcastEvent(conns, st) == [c \in DOMAIN conns |-> st]

\* One awaited store write of a handler, applied to the store st = [G, P].
storeWrite(st, o, w) ==
  CASE w = "G" -> [st EXCEPT !.G = o.gs]
    [] w = "P" -> [st EXCEPT !.P = o.players]
    [] w = "dG" -> [st EXCEPT !.G = createDefaultGameState]
    [] w = "dP" -> [st EXCEPT !.P = NoPlayers]

RECURSIVE storeWrites(_, _, _)
storeWrites(st, o, ws) ==
  IF ws = <<>> THEN st ELSE storeWrites(storeWrite(st, o, Head(ws)), o, Tail(ws))

\* ------------------------------------------------------------------ state
VARIABLES
  gameState,   \* the stored game-state document (cryptex:gameState)
  players,     \* the stored roster document (cryptex:players)
  now,         \* wall clock, milliseconds
  last,        \* Spec: the last request served and its reply
  reqs,        \* SpecConc: the request handler running in each slot
  nreq,        \* SpecConc: number of requests received so far
  operationLock, \* SpecLock: the module variable operationLock
  callers,     \* SpecLock: where each caller of withLock stands
  microtasks,  \* SpecLock: continuations queued by resolved promises
  arrived,     \* SpecLock: callers in order of their call
  begun,       \* SpecLock: callers in order of the start of their operation
  client,      \* SpecClient: the store and the hook refs of a player's browser
  seen,        \* SpecClient: the resetAt of the client's latest observation
  sseClients   \* the registered SSE connections and the last event sent to each

storeVars == <<gameState, players>>
concVars == <<reqs, nreq>>
lockVars == <<operationLock, callers, microtasks, arrived, begun>>
clientVars == <<client, seen>>
sseVars == <<sseClients>>
vars == <<gameState, players, now, last, reqs, nreq,
          operationLock, callers, microtasks, arrived, begun, client, seen,
          sseClients>>

Modes == {"free", "controlled", "turbo"}
Sessions == {"s1"}

\* persisted: every store write the request awaited took effect
NoRequest == [action |-> "", body |-> Body, resp |-> Ok, persisted |-> TRUE]

Slots == 1..NSlots
IdleSlot ==
  [pc |-> "idle", id |-> 0, action |-> "", body |-> Body,
   gs |-> createDefaultGameState, ps |-> NoPlayers, writes |-> <<>>,
   resp |-> Ok, with |-> {}]

LockCallers == 1..NCallers

\* No observation yet.
NoneSeen == 0 - 2

\* GameSession of the client store: present is FALSE for session = null
NoGameSession ==
  [present |-> FALSE, currentRound |-> 0,
   roundsCompleted |-> [r \in Rounds |-> FALSE], isComplete |-> FALSE]

\* The browser of a player: the fields of the zustand store the hooks read
\* and write (user is "" for null), the refs of useGameSync, the delay of
\* the armed poll timer (0: none), and history of the last run of the sync
\* agent: the cause of a forced logout, the outcome of performSync ("cache",
\* "ok", "failed") and its number of calls of setWaitingForStart.
NoClient ==
  [hook |-> "", isAuthenticated |-> FALSE, isWaitingForStart |-> FALSE,
   user |-> "", session |-> NoGameSession, view |-> "code",
   accessCode |-> NoCode, lastResetAt |-> NullTime, lastAccessCode |-> NoCode,
   lastIsStarted |-> "null", lastStartedAt |-> NullTime,
   cache |-> [present |-> FALSE, isStarted |-> FALSE, startedAt |-> NullTime,
              isActive |-> FALSE, accessCode |-> NoCode, timestamp |-> 0],
   errorCount |-> 0, interval |-> 0, logoutCause |-> "", outcome |-> "",
   calls |-> 0]

InitClientIdle == client = NoClient /\ seen = NoneSeen

\* sseClients = new Set()
NoConnections == [c \in {} |-> 0]
InitSseIdle == sseClients = NoConnections

InitConcIdle == reqs = [s \in Slots |-> IdleSlot] /\ nreq = 0
InitLockIdle ==
  /\ operationLock = 0
  /\ callers = [c \in LockCallers |-> [pc |-> "idle", awaits |-> 0]]
  /\ microtasks = <<>>
  /\ arrived = <<>>
  /\ begun = <<>>

\* Requests served to set the stage of a specification.
bodyOf(action, u, c, m) ==
  [action |-> action, body |-> [Body EXCEPT !.username = u, !.code = c, !.mode = m]]

RECURSIVE serve(_, _)
\* The store after serving the requests rs one after another at time 0.
serve(st, rs) ==
  IF rs = <<>> THEN st
  ELSE LET o == Handle(Head(rs).action, st.G, st.P, Head(rs).body, 0)
       IN serve(storeWrites(st, o, o.writes), Tail(rs))

\* ---------------------------------------- Spec: one request after another
Init ==
  /\ gameState = createDefaultGameState
  /\ players = NoPlayers
  /\ now = 0
  /\ last = NoRequest
  /\ InitConcIdle
  /\ InitLockIdle
  /\ InitSseIdle
  /\ InitClientIdle

\* A whole POST request: read both documents, run the case, await its writes.
Request(action, b) ==
  LET o == Handle(action, gameState, players, b, now)
      st == storeWrites([G |-> gameState, P |-> players], o, o.writes)
  IN /\ gameState' = st.G
     /\ players' = st.P
     /\ last' = [action |-> action, body |-> b, resp |-> o.resp, persisted |-> TRUE]
     /\ sseClients' = IF broadcasts(action, o)
                      THEN broadcastEvent(sseClients, st)
                      ELSE sseClients

SetMode ==
  /\ \E m \in Modes : Request("set-mode", [Body EXCEPT !.mode = m])
  /\ UNCHANGED <<now, concVars, lockVars, clientVars>>
Start ==
  /\ Request("start", Body)
  /\ UNCHANGED <<now, concVars, lockVars, clientVars>>
LaunchRound ==
  /\ Request("launch-round", Body)
  /\ UNCHANGED <<now, concVars, lockVars, clientVars>>
EndRound ==
  /\ Request("end-round", Body)
  /\ UNCHANGED <<now, concVars, lockVars, clientVars>>
Stop ==
  /\ Request("stop", Body)
  /\ UNCHANGED <<now, concVars, lockVars, clientVars>>
Reset ==
  /\ Request("reset", Body)
  /\ UNCHANGED <<now, concVars, lockVars, clientVars>>
AdminLogout ==
  /\ Request("admin-logout", Body)
  /\ UNCHANGED <<now, concVars, lockVars, clientVars>>
CreateGameOf(S) ==
  /\ \E c \in Codes, sid \in S :
       Request("create-game", [Body EXCEPT !.code = c, !.adminSessionId = sid])
  /\ UNCHANGED <<now, concVars, lockVars, clientVars>>
CreateGame == CreateGameOf(Sessions)
AdminLoginOf(S) ==
  /\ \E sid \in S : Request("admin-login", [Body EXCEPT !.sessionId = sid])
  /\ UNCHANGED <<now, concVars, lockVars, clientVars>>
EndGame ==
  /\ Request("end-game", Body)
  /\ UNCHANGED <<now, concVars, lockVars, clientVars>>
HeartbeatOf(U) ==
  /\ \E u \in U \cup {""} : Request("heartbeat", [Body EXCEPT !.username = u])
  /\ UNCHANGED <<now, concVars, lockVars, clientVars>>
ReconnectOf(U) ==
  /\ \E u \in U \cup {""} : Request("reconnect", [Body EXCEPT !.username = u])
  /\ UNCHANGED <<now, concVars, lockVars, clientVars>>
ValidateCode ==
  /\ \E c \in Codes : Request("validate-code", [Body EXCEPT !.code = c])
  /\ UNCHANGED <<now, concVars, lockVars, clientVars>>
JoinOf(U) ==
  /\ \E u \in U \cup {""}, a \in Avatars :
       Request("join", [Body EXCEPT !.username = u, !.avatar = a])
  /\ UNCHANGED <<now, concVars, lockVars, clientVars>>
LeaveOf(U) ==
  /\ \E u \in U \cup {""} : Request("leave", [Body EXCEPT !.username = u])
  /\ UNCHANGED <<now, concVars, lockVars, clientVars>>
CompleteRoundIn(U, R) ==
  /\ \E u \in U, r \in R, tm \in Times :
       Request("complete-round",
               [Body EXCEPT !.username = u, !.roundId = r, !.time = tm])
  /\ UNCHANGED <<now, concVars, lockVars, clientVars>>
CompleteRoundOf(U) == CompleteRoundIn(U \cup {""}, RoundIds)

RevealHintOf(R) ==
  /\ \E r \in R : Request("reveal-hint", [Body EXCEPT !.roundId = r])
  /\ UNCHANGED <<now, concVars, lockVars, clientVars>>
CheckOf(R, S) ==
  /\ \E r \in R, a \in S :
       Request("check", [Body EXCEPT !.roundId = r, !.solution = a])
  /\ UNCHANGED <<now, concVars, lockVars, clientVars>>

\* A whole PUT request.
PutBodies(R, H, S) ==
  {[Body EXCEPT !.roundId = r, !.updates = TRUE, !.hints = h,
                !.hasSolution = x[1], !.newSolution = x[2]] :
     r \in R, h \in H, x \in S}
    \cup {[Body EXCEPT !.roundId = r] : r \in R}
PutOf(R, H, S) ==
  /\ \E b \in PutBodies(R, H, S) :
       LET o == PutOp(gameState, players, b, now)
           st == storeWrites([G |-> gameState, P |-> players], o, o.writes)
       IN /\ gameState' = st.G
          /\ players' = st.P
          /\ last' = [action |-> "PUT", body |-> b, resp |-> o.resp,
                       persisted |-> TRUE]
  /\ UNCHANGED sseVars
  /\ UNCHANGED <<now, concVars, lockVars, clientVars>>

Join == JoinOf(Users)
Leave == LeaveOf(Users)
CompleteRound == CompleteRoundOf(Users)

\* The wall clock advances between requests.
Tick ==
  \E d \in TickSteps :
    /\ now + d <= MaxNow
    /\ now' = now + d
    /\ UNCHANGED <<gameState, players, last, concVars, lockVars, clientVars, sseVars>>

Next ==
  \/ SetMode \/ Start \/ LaunchRound \/ EndRound \/ Stop \/ Reset
  \/ AdminLogout \/ CreateGame \/ ValidateCode \/ Join \/ Leave
  \/ CompleteRound

Spec == Init /\ [][Next]_vars

\* ------------------------- SpecTime: requests one at a time, clock running
JoinT == JoinOf(TimeUsers)
CompleteRoundT == CompleteRoundOf(TimeUsers)

NextTime ==
  \/ Tick \/ CreateGame \/ ValidateCode \/ JoinT \/ Start \/ Stop
  \/ CompleteRoundT \/ Reset \/ AdminLogout

SpecTime == Init /\ [][NextTime]_vars

\* ------------- SpecHints: the administrator reveals hints and edits rounds
RevealHint == RevealHintOf(HintRoundIds)
PutHints == PutOf(PutRoundIds, PutHintCounts, {NoSolution})

NextHints == RevealHint \/ PutHints \/ SetMode \/ CreateGame \/ Reset

SpecHints == Init /\ [][NextHints]_vars

\* ------------- SpecCheck: solutions checked during a controlled-mode game
StartedControlled ==
  serve([G |-> createDefaultGameState, P |-> NoPlayers],
        << bodyOf("create-game", "", <<"a", "b", "c", "d">>, ""),
           bodyOf("set-mode", "", <<>>, "controlled"),
           bodyOf("start", "", <<>>, "") >>)

InitCheck ==
  /\ gameState = StartedControlled.G
  /\ players = StartedControlled.P
  /\ now = 0
  /\ last = NoRequest
  /\ InitConcIdle
  /\ InitLockIdle
  /\ InitSseIdle
  /\ InitClientIdle

Check == CheckOf(CheckRoundIds, Attempts)
PutSolution == PutOf({1}, {Unset}, PutSolutions)

NextCheck == Check \/ PutSolution \/ LaunchRound \/ EndRound \/ SetMode

SpecCheck == InitCheck /\ [][NextCheck]_vars

\* ------------- SpecPlay: one player works through the six rounds
StartedFree ==
  serve([G |-> createDefaultGameState, P |-> NoPlayers],
        << bodyOf("create-game", "", <<"a", "b", "c", "d">>, ""),
           bodyOf("join", "A", <<>>, ""),
           bodyOf("join", "B", <<>>, ""),
           bodyOf("start", "", <<>>, "") >>)

InitPlay ==
  /\ gameState = StartedFree.G
  /\ players = StartedFree.P
  /\ now = 0
  /\ last = NoRequest
  /\ InitConcIdle
  /\ InitLockIdle
  /\ InitSseIdle
  /\ InitClientIdle

CompleteRoundP == CompleteRoundIn(PlayUsers, PlayRoundIds)

NextPlay == CompleteRoundP \/ SetMode \/ LaunchRound \/ EndRound

SpecPlay == InitPlay /\ [][NextPlay]_vars

\* ------------- SpecPush: requests served while SSE connections are open
\* GET ?stream=1: the connection is sent the current snapshot and registered
Connect(c) ==
  /\ c \notin DOMAIN sseClients
  /\ sseClients' = [x \in DOMAIN sseClients \cup {c} |->
                      IF x = c THEN [G |-> gameState, P |-> players]
                      ELSE sseClients[x]]
  /\ UNCHANGED <<gameState, players, now, last, concVars, lockVars, clientVars>>

\* res.on('close'): the connection is removed from the set
Close(c) ==
  /\ c \in DOMAIN sseClients
  /\ sseClients' = [x \in DOMAIN sseClients \ {c} |-> sseClients[x]]
  /\ UNCHANGED <<gameState, players, now, last, concVars, lockVars, clientVars>>

Connecting == \E c \in Conns : Connect(c)
Closing == \E c \in Conns : Close(c)

AdminLoginP == AdminLoginOf(Sessions \cup {NoSession})
HeartbeatT == HeartbeatOf(TimeUsers)
ReconnectT == ReconnectOf(TimeUsers)
LeaveT == LeaveOf(TimeUsers)
PutRound == PutOf({1}, {1}, {NoSolution})

NextPush ==
  \/ Connecting \/ Closing \/ CreateGame \/ JoinT \/ HeartbeatT \/ ReconnectT
  \/ LeaveT \/ AdminLoginP \/ EndGame \/ SetMode \/ PutRound

SpecPush == Init /\ [][NextPush]_vars

\* ------------- SpecRace: three players in a started controlled-mode game
Lobby ==
  serve([G |-> createDefaultGameState, P |-> NoPlayers],
        << bodyOf("create-game", "", <<"a", "b", "c", "d">>, ""),
           bodyOf("join", "A", <<>>, ""),
           bodyOf("join", "B", <<>>, ""),
           bodyOf("join", "C", <<>>, ""),
           bodyOf("set-mode", "", <<>>, "controlled"),
           bodyOf("start", "", <<>>, "") >>)

InitRace ==
  /\ gameState = Lobby.G
  /\ players = Lobby.P
  /\ now = 0
  /\ last = NoRequest
  /\ InitConcIdle
  /\ InitLockIdle
  /\ InitSseIdle
  /\ InitClientIdle

CompleteRoundR == CompleteRoundOf(RaceUsers)
LeaveR == LeaveOf(RaceUsers)

NextRace == LaunchRound \/ EndRound \/ CompleteRoundR \/ LeaveR

SpecRace == InitRace /\ [][NextRace]_vars

\* ------------- SpecConc: request handlers interleaved by the event loop
\* A handler runs from one await to the next without interruption; between
\* two of its awaits any other handler may run.  The awaits of a POST
\* request are getGameState, getPlayers, each store write in turn and
\* broadcastLatestState; the reply is sent after the last of them.
request(action, u, r) ==
  [action |-> action, body |-> [Body EXCEPT !.username = u, !.roundId = r, !.time = 7]]

ConcRequests ==
  {request("complete-round", u, 1) : u \in Users}
    \cup {request("launch-round", "", 0), request("stop", "", 0),
          request("leave", "A", 0)}

ActiveRound ==
  serve([G |-> createDefaultGameState, P |-> NoPlayers],
        << bodyOf("create-game", "", <<"a", "b", "c", "d">>, ""),
           bodyOf("join", "A", <<>>, ""),
           bodyOf("join", "B", <<>>, ""),
           bodyOf("set-mode", "", <<>>, "controlled"),
           bodyOf("start", "", <<>>, ""),
           bodyOf("launch-round", "", <<>>, "") >>)

InitConc ==
  /\ gameState = ActiveRound.G
  /\ players = ActiveRound.P
  /\ now = 0
  /\ last = NoRequest
  /\ InitConcIdle
  /\ InitLockIdle
  /\ InitSseIdle
  /\ InitClientIdle

inFlight(r) == r.pc \in {"readG", "readP", "write", "bcast"}

\* handler entered: the request is parsed and getGameState awaited (491).
\* Slots are interchangeable, so a request takes the first idle one.
\* with is history: the requests in flight when this one arrived and the
\* requests received since, for as long as this one keeps its slot.
Arrive(s) ==
  /\ reqs[s].pc = "idle"
  /\ \A t \in Slots : t < s => reqs[t].pc # "idle"
  /\ nreq < MaxRequests
  /\ \E rq \in ConcRequests :
       reqs' = [t \in Slots |->
                  IF t = s
                  THEN [IdleSlot EXCEPT !.pc = "readG", !.id = nreq + 1,
                          !.action = rq.action, !.body = rq.body,
                          !.with = {reqs[x].id : x \in {y \in Slots : inFlight(reqs[y])}}]
                  ELSE IF reqs[t].pc # "idle"
                       THEN [reqs[t] EXCEPT !.with = @ \cup {nreq + 1}]
                       ELSE reqs[t]]
  /\ nreq' = nreq + 1
  /\ UNCHANGED <<gameState, players, now, last, lockVars, clientVars, sseVars>>

\* getGameState resolves (491); getPlayers is awaited (492)
ReadGameState(s) ==
  /\ reqs[s].pc = "readG"
  /\ reqs' = [reqs EXCEPT ![s].gs = gameState, ![s].pc = "readP"]
  /\ UNCHANGED <<gameState, players, now, last, nreq, lockVars, clientVars, sseVars>>

\* getPlayers resolves (492); the case runs up to its first await
ReadPlayers(s) ==
  /\ reqs[s].pc = "readP"
  /\ LET o == Handle(reqs[s].action, reqs[s].gs, players, reqs[s].body, now)
     IN reqs' = [reqs EXCEPT ![s].gs = o.gs, ![s].ps = o.players,
                             ![s].writes = o.writes, ![s].resp = o.resp,
                             ![s].pc = IF o.writes = <<>> THEN "done" ELSE "write"]
  /\ UNCHANGED <<gameState, players, now, last, nreq, lockVars, clientVars, sseVars>>

\* the next awaited store write of the case takes effect
Write(s) ==
  /\ reqs[s].pc = "write"
  /\ LET st == storeWrite([G |-> gameState, P |-> players],
                          [gs |-> reqs[s].gs, players |-> reqs[s].ps],
                          Head(reqs[s].writes))
         rest == Tail(reqs[s].writes)
     IN /\ gameState' = st.G
        /\ players' = st.P
        /\ reqs' = [reqs EXCEPT ![s].writes = rest,
                                ![s].pc = IF rest # <<>> THEN "write"
                                          ELSE IF reqs[s].action \in Broadcasting
                                          THEN "bcast" ELSE "done"]
  /\ UNCHANGED <<now, last, nreq, lockVars, clientVars, sseVars>>

\* broadcastLatestState resolves; res.json sends the reply
Broadcast(s) ==
  /\ reqs[s].pc = "bcast"
  /\ reqs' = [reqs EXCEPT ![s].pc = "done"]
  /\ sseClients' = broadcastEvent(sseClients, [G |-> gameState, P |-> players])
  /\ UNCHANGED <<gameState, players, now, last, nreq, lockVars, clientVars>>

\* the reply has been delivered; the slot serves the next request
Retire(s) ==
  /\ reqs[s].pc = "done"
  /\ reqs' = [reqs EXCEPT ![s] = IdleSlot]
  /\ UNCHANGED <<gameState, players, now, last, nreq, lockVars, clientVars, sseVars>>

Arriving == \E s \in Slots : Arrive(s)
ReadingGameState == \E s \in Slots : ReadGameState(s)
ReadingPlayers == \E s \in Slots : ReadPlayers(s)
Writing == \E s \in Slots : Write(s)
Broadcasting1 == \E s \in Slots : Broadcast(s)
Retiring == \E s \in Slots : Retire(s)

NextConc ==
  \/ Arriving \/ ReadingGameState \/ ReadingPlayers \/ Writing
  \/ Broadcasting1 \/ Retiring

SpecConc == InitConc /\ [][NextConc]_vars

\* ----------------------------------------- SpecLock: callers of withLock
\* A promise created by withLock is named after the caller that created it;
\* operationLock = 0 stands for null.  Continuations of a resolved promise
\* run, in the order the awaits were registered, before the event loop
\* takes the next call or the next operation's completion.

\* withLock is called: lines 354-365 up to the first suspension
Call(c) ==
  /\ callers[c].pc = "idle"
  /\ microtasks = <<>>
  /\ arrived' = Append(arrived, c)
  /\ IF operationLock # 0
     THEN /\ callers' = [callers EXCEPT ![c] = [pc |-> "waiting", awaits |-> operationLock]]
          /\ UNCHANGED <<operationLock, begun>>
     ELSE /\ operationLock' = c
          /\ callers' = [callers EXCEPT ![c] = [pc |-> "running", awaits |-> 0]]
          /\ begun' = Append(begun, c)
  /\ UNCHANGED <<gameState, players, now, last, concVars, microtasks, clientVars, sseVars>>

\* the awaited lock was resolved: lines 358-365, without a second look at
\* operationLock
Resume ==
  /\ microtasks # <<>>
  /\ LET c == Head(microtasks)
     IN /\ operationLock' = c
        /\ callers' = [callers EXCEPT ![c] = [pc |-> "running", awaits |-> 0]]
        /\ begun' = Append(begun, c)
  /\ microtasks' = Tail(microtasks)
  /\ UNCHANGED <<gameState, players, now, last, concVars, arrived, clientVars, sseVars>>

\* the operation of c completes: finally, lines 367-373
Finish(c) ==
  /\ callers[c].pc = "running"
  /\ microtasks = <<>>
  /\ operationLock' = 0
  /\ LET woken(x) == callers[x].pc = "waiting" /\ callers[x].awaits = c
     IN /\ microtasks' = SelectSeq(arrived, woken)
        /\ callers' = [x \in LockCallers |->
                         IF x = c THEN [pc |-> "done", awaits |-> 0]
                         ELSE IF woken(x) THEN [pc |-> "queued", awaits |-> 0]
                         ELSE callers[x]]
  /\ UNCHANGED <<gameState, players, now, last, concVars, arrived, begun, clientVars, sseVars>>

Calling == \E c \in LockCallers : Call(c)
Finishing == \E c \in LockCallers : Finish(c)

NextLock == Calling \/ Resume \/ Finishing

InitLock ==
  /\ gameState = createDefaultGameState
  /\ players = NoPlayers
  /\ now = 0
  /\ last = NoRequest
  /\ InitConcIdle
  /\ InitLockIdle
  /\ InitSseIdle
  /\ InitClientIdle

SpecLock == InitLock /\ [][NextLock]_vars

\* ------------- SpecClient: a player's browser follows the server state
\* The client is a player who joined and waits for the start.  hook tells
\* which useGameSync the page runs: "sse" the one that listens to the event
\* stream and offers refresh, "poll" the one that polls with performSync.
\* An observation hands the client the server state of that moment.

\* GET /api/game, main game state: the fields the hooks read (448-462)
getResponse(gs) ==
  [isStarted |-> gs.isStarted, startedAt |-> gs.startedAt, resetAt |-> gs.resetAt,
   isActive |-> gs.isActive, accessCode |-> gs.accessCode]

\* gameStore.forceLogout; cause records which test asked for it.  The
\* polling effect is cleaned up when isAuthenticated falls.
forceLogout(c, cause) ==
  [c EXCEPT !.isAuthenticated = FALSE, !.user = "", !.session = NoGameSession,
            !.view = "code", !.accessCode = NoCode,
            !.isWaitingForStart = FALSE, !.interval = 0, !.logoutCause = cause]

\* gameStore.setWaitingForStart
setWaitingForStart(c, waiting) ==
  [c EXCEPT !.isWaitingForStart = waiting, !.calls = @ + 1]

\* handleGameStateEvent and the body of refresh after response.json(): d is
\* payload.gameState or the GET response
observeState(c0, d) ==
  LET c == [c0 EXCEPT !.calls = 0]
  IN IF d.resetAt # NullTime /\ d.resetAt # c.lastResetAt /\ c.lastResetAt # NullTime
     THEN forceLogout(c, "resetAt")
     ELSE LET c1 == [c EXCEPT !.lastResetAt = d.resetAt]
          IN IF c1.lastAccessCode # NoCode /\ d.accessCode = NoCode
             THEN forceLogout(c1, "accessCode")
             ELSE LET c2 == [c1 EXCEPT !.lastAccessCode = d.accessCode]
                      started == IF d.isStarted THEN "true" ELSE "false"
                  IN IF started # c2.lastIsStarted
                     THEN LET c3 == [c2 EXCEPT !.lastIsStarted = started]
                          IN IF d.isStarted THEN setWaitingForStart(c3, FALSE)
                             ELSE IF d.accessCode # NoCode
                             THEN setWaitingForStart(c3, TRUE)
                             ELSE c3
                     ELSE c2

\* useGameSync.refresh
refresh(c, d, ok) ==
  IF ~c.isAuthenticated \/ ~ok THEN c ELSE observeState(c, d)

\* setWaitingForStart as performSync calls it on a snapshot
waitingPerSnapshot(c, isStarted, exists) ==
  IF isStarted THEN setWaitingForStart(c, FALSE)
  ELSE IF exists THEN setWaitingForStart(c, TRUE)
  ELSE c

\* performSync takes its answer from the cache
usesCache(c, immediate, t) ==
  /\ c.cache.present /\ ~immediate /\ t - c.cache.timestamp < CacheMs
  /\ c.cache.startedAt = c.lastStartedAt

\* performSync as it would be if a failed fetch dropped the cached snapshot.
performSyncForgetful(c0, d, immediate, ok, t) ==
  LET c == [c0 EXCEPT !.calls = 0]
  IN IF usesCache(c, immediate, t)
     THEN waitingPerSnapshot([c EXCEPT !.outcome = "cache"], c.cache.isStarted,
                             c.cache.isActive \/ c.cache.accessCode # NoCode)
     ELSE IF ~ok
     THEN [c EXCEPT !.errorCount = @ + 1, !.outcome = "failed",
                    !.cache = NoClient.cache]
     ELSE LET c1 == IF d.startedAt # c.lastStartedAt /\ d.startedAt # NullTime
                    THEN LET x == [c EXCEPT !.lastStartedAt = d.startedAt]
                         IN IF d.isStarted THEN setWaitingForStart(x, FALSE) ELSE x
                    ELSE c
              c2 == [c1 EXCEPT !.cache = [present |-> TRUE, isStarted |-> d.isStarted,
                                          startedAt |-> d.startedAt,
                                          isActive |-> d.isActive,
                                          accessCode |-> d.accessCode,
                                          timestamp |-> t],
                               !.errorCount = 0, !.outcome = "ok"]
          IN waitingPerSnapshot(c2, d.isStarted, d.accessCode # NoCode \/ d.isActive)

\* useGameSync.performSync of a non-admin client, once the answer d of the
\* fetch (or its failure) is in
performSync(c0, d, immediate, ok, t) ==
  LET c == [c0 EXCEPT !.calls = 0]
  IN IF usesCache(c, immediate, t)
     THEN waitingPerSnapshot([c EXCEPT !.outcome = "cache"], c.cache.isStarted,
                             c.cache.isActive \/ c.cache.accessCode # NoCode)
     ELSE IF ~ok
     THEN LET c1 == [c EXCEPT !.errorCount = @ + 1, !.outcome = "failed"]
          IN IF c.cache.present
             THEN waitingPerSnapshot(c1, c.cache.isStarted, c.cache.isActive)
             ELSE c1
     ELSE LET c1 == IF d.startedAt # c.lastStartedAt /\ d.startedAt # NullTime
                    THEN LET x == [c EXCEPT !.lastStartedAt = d.startedAt]
                         IN IF d.isStarted THEN setWaitingForStart(x, FALSE) ELSE x
                    ELSE c
              c2 == [c1 EXCEPT !.cache = [present |-> TRUE, isStarted |-> d.isStarted,
                                          startedAt |-> d.startedAt,
                                          isActive |-> d.isActive,
                                          accessCode |-> d.accessCode,
                                          timestamp |-> t],
                               !.errorCount = 0, !.outcome = "ok"]
          IN waitingPerSnapshot(c2, d.isStarted, d.accessCode # NoCode \/ d.isActive)

Min(a, b) == IF a <= b THEN a ELSE b

\* getPollInterval as it would be without the cap on the multiplier.
getPollIntervalUncapped(errorCount) ==
  Min(BASE_POLL_INTERVAL * (2 ^ errorCount), MAX_POLL_INTERVAL)

\* useGameSync.getPollInterval
getPollInterval(errorCount) ==
  LET errorMultiplier == Min(2 ^ errorCount, MaxMultiplier)
      calculated == BASE_POLL_INTERVAL * errorMultiplier
  IN Min(calculated, MAX_POLL_INTERVAL)

Waiting ==
  serve([G |-> createDefaultGameState, P |-> NoPlayers],
        << bodyOf("create-game", "", <<"a", "b", "c", "d">>, ""),
           bodyOf("join", "A", <<>>, "") >>)

\* gameStore.login succeeded: the player is authenticated and waits
freshSession == [NoGameSession EXCEPT !.present = TRUE]

\* the polling effect arms its first timer when the hook mounts
loggedIn(hook, gs) ==
  [NoClient EXCEPT !.hook = hook, !.isAuthenticated = TRUE,
                   !.user = "A", !.session = freshSession, !.view = "game",
                   !.isWaitingForStart = ~gs.isStarted,
                   !.accessCode = gs.accessCode, !.lastAccessCode = gs.accessCode,
                   !.interval = IF hook = "poll" THEN getPollInterval(0) ELSE 0]

InitClient ==
  /\ gameState = Waiting.G
  /\ players = Waiting.P
  /\ now = 0
  /\ last = NoRequest
  /\ InitConcIdle
  /\ InitLockIdle
  /\ InitSseIdle
  /\ \E h \in {"sse", "poll"} : client = loggedIn(h, Waiting.G)
  /\ seen = NoneSeen

\* an event of the stream reaches the listener, which is subscribed while
\* the player is authenticated and waiting
PushEvent ==
  /\ client.hook = "sse"
  /\ client.isAuthenticated /\ client.isWaitingForStart
  /\ client' = observeState(client, gameState)
  /\ seen' = gameState.resetAt
  /\ UNCHANGED <<gameState, players, now, last, concVars, lockVars, sseVars>>

\* the page calls refresh
Refresh ==
  /\ client.hook = "sse"
  /\ \E ok \in BOOLEAN :
       /\ client' = refresh(client, getResponse(gameState), ok)
       /\ seen' = IF client.isAuthenticated /\ ok THEN gameState.resetAt ELSE seen
  /\ UNCHANGED <<gameState, players, now, last, concVars, lockVars, sseVars>>

\* a poll, immediate at mount or else fired by the timer, which arms the
\* next one (scheduleNext) before the debounced performSync runs: unless
\* the cache answers, the heartbeat is posted and the state fetched; the
\* heartbeat changes the roster only, which the client does not read
PerformSyncUpTo(maxErrors) ==
  /\ client.hook = "poll"
  /\ client.isAuthenticated
  /\ \E immediate \in BOOLEAN, ok \in BOOLEAN :
       /\ ~ok => client.errorCount < maxErrors
       /\ LET armed == IF immediate THEN client
                       ELSE [client EXCEPT
                               !.interval = getPollInterval(client.errorCount)]
          IN client' = performSync(armed, getResponse(gameState), immediate, ok, now)
       /\ IF usesCache(client, immediate, now)
          THEN UNCHANGED <<players, seen>>
          ELSE /\ LET o == HeartbeatOp(gameState, players,
                                       [Body EXCEPT !.username = "A"], now)
                  IN players' = storeWrites([G |-> gameState, P |-> players],
                                            o, o.writes).P
               /\ seen' = IF ok THEN gameState.resetAt ELSE seen
  /\ UNCHANGED <<gameState, now, last, concVars, lockVars, sseVars>>

PerformSyncOnce == PerformSyncUpTo(1)

NextClient ==
  \/ PushEvent \/ Refresh \/ PerformSyncOnce
  \/ Tick \/ Reset \/ AdminLogout \/ CreateGame \/ Start

SpecClient == InitClient /\ [][NextClient]_vars

\* ------------- SpecPoll: the polling hook through failures and restarts
InitPoll ==
  /\ gameState = Waiting.G
  /\ players = Waiting.P
  /\ now = 0
  /\ last = NoRequest
  /\ InitConcIdle
  /\ InitLockIdle
  /\ InitSseIdle
  /\ client = loggedIn("poll", Waiting.G)
  /\ seen = NoneSeen

PerformSync == PerformSyncUpTo(MaxErrors)

NextPoll == PerformSync \/ Tick \/ Start \/ Stop \/ AdminLogout

SpecPoll == InitPoll /\ [][NextPoll]_vars

\* ------------- SpecReconnect: a reloaded page resumes with checkReconnect
\* The answer of POST reconnect as the client reads it (848-886; 404: 865)
reconnectData(o, u) ==
  LET ok == o.resp.status = 200
  IN [ok |-> ok, reconnect |-> ok,
      currentRound |-> IF ok THEN o.players[u].currentRound ELSE 0,
      isFinished |-> IF ok THEN o.players[u].isFinished ELSE FALSE,
      isStarted |-> o.gs.isStarted, accessCode |-> o.gs.accessCode]

\* currentSession || { ... } (163-172, 198-207, 227-235)
restoredSession(c, currentRound, isFinished) ==
  IF c.session.present THEN c.session
  ELSE [freshSession EXCEPT !.currentRound = currentRound,
                            !.isComplete = isFinished]

\* keepLocal as it would be if a failed attempt sent the player back to the
\* code page.
keepLocalStrict(c) == forceLogout(c, "reconnect")

\* Nothing worked on the server side (221-253) or the fetch threw (255-281):
\* both keep the local state.
keepLocal(c) ==
  IF c.accessCode # NoCode
  THEN IF ~c.session.present
       THEN [c EXCEPT !.isAuthenticated = TRUE,
                      !.session = restoredSession(c, 0, FALSE), !.view = "game"]
       ELSE [c EXCEPT !.view = "game"]
  ELSE IF c.session.present THEN [c EXCEPT !.view = "game"]
  ELSE c

\* gameStore.checkReconnect against the store st at time t; net1 and net2
\* tell whether the reconnect and the join fetch get an answer.  The result
\* is the client and the store afterwards; outcome records the branch taken:
\* "known" the server held the record, "created" it made one, "rejoined",
\* "threw" a fetch threw, "unknown" the server refused, "skipped" no request.
ReconnectOutcomes ==
  {"known", "created", "rejoined", "threw", "unknown", "skipped"}

checkReconnect(c, st, t, net1, net2) ==
  LET b == [Body EXCEPT !.username = c.user]
  IN IF c.user = ""
     THEN [c |-> [c EXCEPT !.outcome = "skipped"], st |-> st]
     ELSE IF c.accessCode # NoCode /\ c.session.present
     THEN [c |-> [c EXCEPT !.outcome = "skipped"], st |-> st]
     ELSE IF ~net1
     THEN [c |-> [keepLocal(c) EXCEPT !.outcome = "threw"], st |-> st]
     ELSE
       LET o1 == ReconnectOp(st.G, st.P, b, t)
           st1 == storeWrites(st, o1, o1.writes)
           d == reconnectData(o1, c.user)
       IN IF d.ok /\ d.reconnect
          THEN [c |-> [c EXCEPT !.isAuthenticated = TRUE,
                         !.session = restoredSession(c, d.currentRound, d.isFinished),
                         !.accessCode = d.accessCode,
                         !.isWaitingForStart = ~d.isStarted, !.view = "game",
                         !.outcome = IF c.user \in DOMAIN st.P THEN "known"
                                     ELSE "created"],
                st |-> st1]
          ELSE IF c.accessCode # NoCode \/ c.session.present
          THEN IF ~net2
               THEN [c |-> [keepLocal(c) EXCEPT !.outcome = "threw"], st |-> st1]
               ELSE LET o2 == JoinOp(st1.G, st1.P, b, t)
                        st2 == storeWrites(st1, o2, o2.writes)
                    IN IF o2.resp.status = 200
                       THEN [c |-> [c EXCEPT !.isAuthenticated = TRUE,
                                      !.session = restoredSession(c, 0, FALSE),
                                      !.accessCode = IF o2.gs.accessCode # NoCode
                                                     THEN o2.gs.accessCode ELSE @,
                                      !.isWaitingForStart = ~o2.gs.isStarted,
                                      !.view = "game", !.outcome = "rejoined"],
                             st |-> st2]
                       ELSE [c |-> [keepLocal(c) EXCEPT !.outcome = "unknown"],
                             st |-> st2]
          ELSE [c |-> [keepLocal(c) EXCEPT !.outcome = "unknown"], st |-> st1]

\* What the browser holds when the page loads: the persisted user with or
\* without session and access code; view is not persisted.
LocalSessions ==
  {NoGameSession, freshSession,
   [freshSession EXCEPT !.currentRound = 2,
                        !.roundsCompleted = [r \in Rounds |-> r <= 2]]}

Reloaded ==
  {[NoClient EXCEPT !.isAuthenticated = TRUE, !.user = "A", !.session = ls,
                    !.accessCode = ac] :
     ls \in LocalSessions, ac \in {NoCode, <<"A", "B", "C", "D">>}}

InitReconnect ==
  /\ gameState = StartedFree.G
  /\ players = StartedFree.P
  /\ now = 0
  /\ last = NoRequest
  /\ InitConcIdle
  /\ InitLockIdle
  /\ InitSseIdle
  /\ client \in Reloaded
  /\ seen = NoneSeen

CheckReconnect ==
  /\ \E net1 \in BOOLEAN, net2 \in BOOLEAN :
       LET r == checkReconnect(client, [G |-> gameState, P |-> players], now,
                               net1, net2)
       IN /\ client' = r.c
          /\ gameState' = r.st.G
          /\ players' = r.st.P
  /\ UNCHANGED <<now, last, seen, concVars, lockVars, sseVars>>

\* gameStore.clearGameData
ClearGameData ==
  /\ client' = [client EXCEPT !.accessCode = NoCode, !.outcome = "cleared"]
  /\ UNCHANGED <<gameState, players, now, last, seen, concVars, lockVars, sseVars>>

CompleteRoundA == CompleteRoundIn(PlayUsers, {1, 2})

NextReconnect ==
  \/ CheckReconnect \/ ClearGameData \/ CompleteRoundA \/ LeaveT \/ EndGame
  \/ AdminLogout \/ CreateGame

SpecReconnect == InitReconnect /\ [][NextReconnect]_vars

\* ------------- SpecStop: a game with progress that the admin stops
RevealHintS == RevealHintOf({1})

NextStop ==
  \/ Stop \/ CreateGame \/ JoinT \/ SetMode \/ Start \/ LaunchRound
  \/ RevealHintS \/ CompleteRoundT

SpecStop == Init /\ [][NextStop]_vars

\* ------------- SpecRoster: the requests that add players to the roster
Heartbeat == HeartbeatOf(Users)
Reconnect == ReconnectOf(Users)

NextRoster ==
  \/ CreateGame \/ Start \/ Stop \/ Reset \/ Join \/ Heartbeat \/ Reconnect
  \/ Leave

SpecRoster == Init /\ [][NextRoster]_vars

\* ------------- SpecRounds: every request that writes the round fields
NextRounds ==
  \/ SetMode \/ Start \/ Stop \/ LaunchRound \/ EndRound \/ Reset
  \/ AdminLogout \/ EndGame \/ CreateGame \/ JoinT \/ CompleteRoundT

SpecRounds == Init /\ [][NextRounds]_vars

\* ------------- SpecFail: requests whose store writes may fail
\* kvSet / kvDelete: on an error of the database the document stays as it
\* was and the result is false (123-152)
kvSet(st, o, w, ok) == IF ok THEN storeWrite(st, o, w) ELSE st

RECURSIVE kvSets(_, _, _, _)
kvSets(st, o, ws, oks) ==
  IF ws = <<>> THEN st
  ELSE kvSets(kvSet(st, o, Head(ws), Head(oks)), o, Tail(ws), Tail(oks))

\* A POST request each of whose awaited writes succeeds or fails; the
\* handler does not read the result of setGameState / setPlayers.
RequestStore(action, b) ==
  LET o == Handle(action, gameState, players, b, now)
  IN \E oks \in [DOMAIN o.writes -> BOOLEAN] :
       LET st == kvSets([G |-> gameState, P |-> players], o, o.writes, oks)
       IN /\ gameState' = st.G
          /\ players' = st.P
          /\ last' = [action |-> action, body |-> b, resp |-> o.resp,
                       persisted |-> \A i \in DOMAIN oks : oks[i]]
          /\ sseClients' = IF broadcasts(action, o)
                           THEN broadcastEvent(sseClients, st)
                           ELSE sseClients

CreateGameF ==
  /\ \E c \in Codes :
       RequestStore("create-game", [Body EXCEPT !.code = c, !.adminSessionId = "s1"])
  /\ UNCHANGED <<now, concVars, lockVars, clientVars>>
JoinF ==
  /\ \E u \in TimeUsers : RequestStore("join", [Body EXCEPT !.username = u])
  /\ UNCHANGED <<now, concVars, lockVars, clientVars>>
SetModeF ==
  /\ \E m \in Modes : RequestStore("set-mode", [Body EXCEPT !.mode = m])
  /\ UNCHANGED <<now, concVars, lockVars, clientVars>>
StartF ==
  /\ RequestStore("start", Body)
  /\ UNCHANGED <<now, concVars, lockVars, clientVars>>
CompleteRoundF ==
  /\ \E u \in TimeUsers, tm \in Times :
       RequestStore("complete-round",
                    [Body EXCEPT !.username = u, !.roundId = 1, !.time = tm])
  /\ UNCHANGED <<now, concVars, lockVars, clientVars>>
ResetF ==
  /\ RequestStore("reset", Body)
  /\ UNCHANGED <<now, concVars, lockVars, clientVars>>

NextFail ==
  \/ CreateGameF \/ JoinF \/ SetModeF \/ StartF \/ CompleteRoundF \/ ResetF

SpecFail == Init /\ [][NextFail]_vars

\* ------------- SpecRead: requests whose store reads may fail
\* kvGet under getGameState / getPlayers: on an error of the database the
\* result is null and the caller goes on with the default game state or the
\* empty roster (112-121, 245-260)
kvGet(doc, substitute, ok) == IF ok THEN doc ELSE substitute

\* A POST request each of whose two reads succeeds or fails; its writes
\* reach the store.
RequestRead(action, b) ==
  \E okG \in BOOLEAN, okP \in BOOLEAN :
    LET o == Handle(action, kvGet(gameState, createDefaultGameState, okG),
                    kvGet(players, NoPlayers, okP), b, now)
        st == storeWrites([G |-> gameState, P |-> players], o, o.writes)
    IN /\ gameState' = st.G
       /\ players' = st.P
       /\ last' = [action |-> action, body |-> b, resp |-> o.resp,
                    persisted |-> TRUE]
       /\ sseClients' = IF broadcasts(action, o)
                        THEN broadcastEvent(sseClients, st)
                        ELSE sseClients

\* The requests of SpecRead are those that, served from the stored
\* documents, remove no player and keep the game's access code.
JoinD ==
  /\ \E u \in Users : RequestRead("join", [Body EXCEPT !.username = u])
  /\ UNCHANGED <<now, concVars, lockVars, clientVars>>
HeartbeatD ==
  /\ \E u \in Users : RequestRead("heartbeat", [Body EXCEPT !.username = u])
  /\ UNCHANGED <<now, concVars, lockVars, clientVars>>
CompleteRoundD ==
  /\ \E u \in Users, r \in {1, 2}, tm \in Times :
       RequestRead("complete-round",
                   [Body EXCEPT !.username = u, !.roundId = r, !.time = tm])
  /\ UNCHANGED <<now, concVars, lockVars, clientVars>>
StartD ==
  /\ RequestRead("start", Body)
  /\ UNCHANGED <<now, concVars, lockVars, clientVars>>
StopD ==
  /\ RequestRead("stop", Body)
  /\ UNCHANGED <<now, concVars, lockVars, clientVars>>

\* a created game with player A in its lobby
InitRead ==
  /\ gameState = Waiting.G
  /\ players = Waiting.P
  /\ now = 0
  /\ last = NoRequest
  /\ InitConcIdle
  /\ InitLockIdle
  /\ InitSseIdle
  /\ InitClientIdle

NextRead == JoinD \/ HeartbeatD \/ CompleteRoundD \/ StartD \/ StopD

SpecRead == InitRead /\ [][NextRead]_vars

\* ------------- SpecReject: requests the handler refuses
RevealHintR == RevealHintOf({0, 1})

NextReject ==
  \/ SetMode \/ Start \/ LaunchRound \/ EndRound \/ RevealHintR
  \/ CreateGame \/ JoinT \/ CompleteRoundT

SpecReject == Init /\ [][NextReject]_vars

\* ------------- SpecAdmin: admin sessions binding to the game
\* the sessionId / adminSessionId a request may carry (absent included)
AdminIds == {NoSession, "s1", "s2"}

AdminLoginA == AdminLoginOf(AdminIds)
CreateGameA == CreateGameOf(AdminIds)

NextAdmin ==
  \/ AdminLoginA \/ CreateGameA \/ AdminLogout \/ Reset \/ EndGame
  \/ JoinT \/ Start

SpecAdmin == Init /\ [][NextAdmin]_vars

\* ------------- what a player's browser is sent
\* GET /api/game without admin: the rounds of the public response (468-480)
publicRounds(gs) ==
  [r \in DOMAIN gs.rounds |->
     LET total == IF gs.rounds[r].hints = NoHints THEN 0 ELSE gs.rounds[r].hints
     IN [hints |-> Min(total, gs.revealedHints[r]), totalHints |-> total,
         revealedHints |-> gs.revealedHints[r]]]

\* ============================================================ properties
winners == gameState.roundWinners
inRoster(u) == u \in DOMAIN players
isExpired == gameState.expiresAt # NullTime /\ now > gameState.expiresAt
gameExists == gameState.accessCode # NoCode
\* The step serves a request of the given action (Tick leaves the clock's
\* reading changed and the last request in place).
served(action) == last'.action = action /\ now' = now

\* C4: in controlled mode every player whose hasFoundCurrentRound is true is
\* listed in roundWinners, in every state reached by a sequence of requests.
FoundPlayersAreWinners ==
  gameState.gameMode = "controlled" =>
    \A u \in DOMAIN players :
      players[u].hasFoundCurrentRound => includes(winners, u)

\* C6: complete-round in controlled mode appends a new winner at the end of
\* roundWinners, leaves the list alone for a player already in it, and
\* returns the caller's 1-based index in the list; so A, B, C in turn give
\* [A, B, C] and positions 1, 2, 3.
PositionIsRank ==
  [][ (served("complete-round") /\ last'.resp.status = 200
         /\ gameState.gameMode = "controlled")
      => LET u == last'.body.username
             pos == last'.resp.position
         IN /\ pos = indexOf(gameState'.roundWinners, u) + 1
            /\ pos >= 1
            /\ IF includes(winners, u)
               THEN gameState'.roundWinners = winners
               ELSE /\ gameState'.roundWinners = Append(winners, u)
                    /\ pos = Len(winners) + 1 ]_vars

RaceABC ==
  /\ winners = <<"A", "B", "C">>
  /\ last.action = "complete-round"
  /\ last.body.username = "C"
  /\ last.resp.position = 3
  /\ gameState.roundActive

\* C7: join for a username already in the roster keeps one entry for it and
\* changes nothing of the record but the avatar, and that only when an
\* avatar is supplied.
JoinIsIdempotent ==
  [][ \A u \in Users :
        (served("join") /\ last'.body.username = u /\ last'.resp.status = 200
           /\ inRoster(u))
        => /\ DOMAIN players' = DOMAIN players
           /\ players' = [players EXCEPT ![u].avatar =
                            IF last'.body.avatar # "" THEN last'.body.avatar ELSE @]
           /\ gameState' = gameState ]_vars

RejoinedWithProgress ==
  /\ last.action = "join"
  /\ last.resp.status = 200
  /\ last.body.avatar = "cat"
  /\ inRoster("A")
  /\ players["A"].roundsCompleted[1]
  /\ players["A"].avatar = "cat"
  /\ players["A"].joinedAt < now

\* C8: in an existing, unexpired, started game, join for a username without
\* a record fails with GameAlreadyStarted and leaves the roster unchanged;
\* join for a username with a record succeeds whether started or not.
LateJoinRejected ==
  [][ \A u \in Users :
        (served("join") /\ last'.body.username = u /\ gameExists /\ ~isExpired)
        => /\ (gameState.isStarted /\ ~inRoster(u))
                => /\ last'.resp.error = "GameAlreadyStarted"
                   /\ players' = players
                   /\ gameState' = gameState
           /\ inRoster(u) => last'.resp.status = 200 ]_vars

LateJoinSeen ==
  /\ last.action = "join"
  /\ last.resp.error = "GameAlreadyStarted"
  /\ last.body.username = "A"
  /\ ~inRoster("A")
  /\ gameState.isStarted

\* C9: past expiresAt, join (with a username) and validate-code (with a
\* code, matching or not) fail with GameExpired and change neither
\* document; with no accessCode stored both fail with NoActiveGame.
ExpiryBlocksEntry ==
  [][ ( /\ now' = now
        /\ \/ last'.action = "join" /\ last'.body.username # ""
           \/ last'.action = "validate-code" /\ last'.body.code # <<>> )
      => /\ ~gameExists
              => /\ last'.resp.error = "NoActiveGame"
                 /\ UNCHANGED storeVars
         /\ (gameExists /\ isExpired)
              => /\ last'.resp.error = "GameExpired"
                 /\ UNCHANGED storeVars ]_vars

ExpiredWithRightCode ==
  /\ last.action = "validate-code"
  /\ last.resp.error = "GameExpired"
  /\ toUpperCase(last.body.code) = gameState.accessCode
  /\ isExpired

\* C10 (the handler): launch-round fails with WrongMode, GameNotStarted or
\* AllRoundsDone as stated and otherwise adds one to currentRound, sets
\* roundActive, empties roundWinners and clears every hasFoundCurrentRound.
LaunchRoundContract ==
  [][ served("launch-round")
      => IF gameState.gameMode # "controlled"
         THEN last'.resp.error = "WrongMode" /\ UNCHANGED storeVars
         ELSE IF ~gameState.isStarted
         THEN last'.resp.error = "GameNotStarted" /\ UNCHANGED storeVars
         ELSE IF gameState.currentRound = NumRounds
         THEN last'.resp.error = "AllRoundsDone" /\ UNCHANGED storeVars
         ELSE /\ last'.resp.status = 200
              /\ gameState'.currentRound = gameState.currentRound + 1
              /\ gameState'.roundActive
              /\ gameState'.roundWinners = <<>>
              /\ DOMAIN players' = DOMAIN players
              /\ \A u \in DOMAIN players' : ~players'[u].hasFoundCurrentRound ]_vars

\* C10 (the consequence): currentRound stays within 0..6 and, from one state
\* to the next, is unchanged, one higher, or back at 0.
CurrentRoundStepsByOne ==
  [][ /\ gameState'.currentRound \in 0..NumRounds
      /\ \/ gameState'.currentRound = gameState.currentRound
         \/ gameState'.currentRound = gameState.currentRound + 1
         \/ gameState'.currentRound = 0 ]_vars

\* C1: when two complete-round requests of different players for the
\* current active controlled round were in flight together, and no other
\* request was received meanwhile, then once both have replied with
\* success roundWinners holds both usernames.
repliedWinner(r) ==
  /\ r.pc = "done"
  /\ r.action = "complete-round"
  /\ r.resp.status = 200
  /\ r.resp.position >= 1

overlapped(r, q) == q.id \in r.with /\ r.id \in q.with
amongThemselves(r, q) == r.with \subseteq {q.id} /\ q.with \subseteq {r.id}

NoWinnerLost ==
  \A s, t \in Slots :
    ( /\ s # t
      /\ repliedWinner(reqs[s]) /\ repliedWinner(reqs[t])
      /\ reqs[s].body.username # reqs[t].body.username
      /\ overlapped(reqs[s], reqs[t])
      /\ amongThemselves(reqs[s], reqs[t])
      /\ reqs[s].body.roundId = gameState.currentRound
      /\ reqs[t].body.roundId = gameState.currentRound
      /\ gameState.roundActive /\ gameState.gameMode = "controlled" )
    => /\ includes(winners, reqs[s].body.username)
       /\ includes(winners, reqs[t].body.username)

\* C2: no two requests are at the same time between their store reads and
\* their last store write.
inCycle(r) == r.pc = "write"

OneCycleAtATime ==
  \A s, t \in Slots : (inCycle(reqs[s]) /\ inCycle(reqs[t])) => s = t

\* C3: the operations passed to withLock run one at a time and begin in the
\* order of the calls.
running == {c \in LockCallers : callers[c].pc = "running"}

LockSerializesFIFO ==
  /\ Cardinality(running) <= 1
  /\ Len(begun) <= Len(arrived)
  /\ begun = SubSeq(arrived, 1, Len(begun))

\* C5: roundWinners never holds a username twice, and when two
\* complete-round requests for the same username, overlapping or one after
\* the other, have both replied with success and no other request was
\* received meanwhile, exactly one entry for it is stored.
WinnersHaveNoDuplicates ==
  /\ \A u \in Users : Count(winners, u) <= 1
  /\ \A s, t \in Slots :
       ( /\ s # t
         /\ repliedWinner(reqs[s]) /\ repliedWinner(reqs[t])
         /\ reqs[s].body.username = reqs[t].body.username
         /\ amongThemselves(reqs[s], reqs[t]) )
       => Count(winners, reqs[s].body.username) = 1

RetriedOverlapping ==
  \E s, t \in Slots :
    /\ s # t
    /\ repliedWinner(reqs[s]) /\ repliedWinner(reqs[t])
    /\ reqs[s].body.username = reqs[t].body.username
    /\ overlapped(reqs[s], reqs[t])
    /\ amongThemselves(reqs[s], reqs[t])
    /\ winners = <<reqs[s].body.username>>

\* ------------------------------------------------- hints (C12, C13)
hintsOf(gs, r) == gs.rounds[r].hints
canReveal(gs, r) ==
  /\ hintsOf(gs, r) # NoHints
  /\ gs.revealedHints[r] < hintsOf(gs, r)
  /\ gs.revealedHints[r] < MaxRevealed

\* C12: a reveal-hint for a round with h authored hints and k hints
\* revealed, k < min(3, h), succeeds and raises revealedHints of that round
\* by exactly one, leaving the other rounds alone; when k = h or k = 3 it
\* fails with NoMoreHints and leaves revealedHints unchanged.  So k
\* successful calls starting from 0 leave revealedHints[round] = k, and the
\* count stays within 0..3.
HintsRevealedOneByOne ==
  [][(served("reveal-hint") /\ last'.body.roundId \in Rounds) =>
       LET r == last'.body.roundId
           k == gameState.revealedHints[r]
       IN /\ canReveal(gameState, r) =>
               /\ last'.resp.status = 200
               /\ gameState'.revealedHints =
                    [gameState.revealedHints EXCEPT ![r] = k + 1]
          /\ (k = hintsOf(gameState, r) \/ k = MaxRevealed) =>
               /\ last'.resp.error = "NoMoreHints"
               /\ gameState'.revealedHints = gameState.revealedHints
          /\ gameState'.revealedHints[r] \in 0..MaxRevealed]_vars

\* C12 witness: after a PUT left round 1 with a single hint, that hint was
\* revealed and the next reveal-hint was refused.
SingleHintExhausted ==
  /\ last.action = "reveal-hint"
  /\ last.body.roundId = 1
  /\ last.resp.error = "NoMoreHints"
  /\ hintsOf(gameState, 1) = 1
  /\ gameState.revealedHints[1] = 1

\* C13: revealedHints of a round never decreases from one state to the
\* next, except in a reset step.
HintsNeverDecrease ==
  [][(\A r \in Rounds : gameState'.revealedHints[r] >= gameState.revealedHints[r])
       \/ served("reset")]_vars

\* ------------------------------------------------- check (C14, C15)
isAttempt(b) == b.roundId # 0 /\ b.solution # NoString
offRound(gs, b) == b.roundId # gs.currentRound

\* C14 as stated: in controlled mode an attempt is refused with
\* NotCurrentRound whenever its roundId is not currentRound and with
\* RoundNotActive whenever roundActive is false, and the reply has no
\* solution.
CheckRefusedByEachRule ==
  [][(served("check") /\ isAttempt(last'.body) /\ gameState.gameMode = "controlled") =>
       /\ offRound(gameState, last'.body) => last'.resp.error = "NotCurrentRound"
       /\ ~gameState.roundActive => last'.resp.error = "RoundNotActive"
       /\ (offRound(gameState, last'.body) \/ ~gameState.roundActive) =>
            last'.resp.solution = NoString]_vars

\* C14 amended: in controlled mode an attempt is refused with
\* NotCurrentRound whenever its roundId is not currentRound, and with
\* RoundNotActive whenever its roundId is currentRound and roundActive is
\* false; in both cases the reply has no solution, whatever the attempt.
CheckRefusedOffRoundFirst ==
  [][(served("check") /\ isAttempt(last'.body) /\ gameState.gameMode = "controlled") =>
       /\ offRound(gameState, last'.body) => last'.resp.error = "NotCurrentRound"
       /\ (~offRound(gameState, last'.body) /\ ~gameState.roundActive) =>
            last'.resp.error = "RoundNotActive"
       /\ (offRound(gameState, last'.body) \/ ~gameState.roundActive) =>
            /\ last'.resp.status = 400
            /\ last'.resp.correct = ""
            /\ last'.resp.solution = NoString]_vars

\* C14 witness: the right answer to round 1, sent while round 1 is the
\* current round but no longer active, was refused.
RightAnswerRefused ==
  /\ last.action = "check"
  /\ gameState.gameMode = "controlled"
  /\ last.body.roundId = gameState.currentRound
  /\ ~gameState.roundActive
  /\ last.body.roundId \in Rounds
  /\ toUpperCase(last.body.solution) = gameState.rounds[last.body.roundId].solution
  /\ last.resp.error = "RoundNotActive"

isWrong(gs, b) ==
  /\ isAttempt(b)
  /\ b.roundId \in Rounds
  /\ toUpperCase(b.solution) # gs.rounds[b.roundId].solution

\* C15 as stated: a check whose attempt, upper-cased, differs from the
\* stored solution of its round is answered correct = false without a
\* solution; a solution is returned only to a correct attempt; check changes
\* neither document.
WrongAttemptAnsweredFalse ==
  [][served("check") =>
       /\ isWrong(gameState, last'.body) =>
            last'.resp.correct = "false" /\ last'.resp.solution = NoString
       /\ last'.resp.solution # NoString =>
            /\ last'.body.roundId \in Rounds
            /\ toUpperCase(last'.body.solution) = last'.resp.solution
            /\ last'.resp.solution = gameState.rounds[last'.body.roundId].solution
       /\ UNCHANGED storeVars]_vars

\* C15 amended: a check whose attempt, upper-cased, differs from the stored
\* solution of its round is never answered correct = true and never
\* receives a solution, and is answered correct = false unless the request
\* is refused (status other than 200); a solution is returned only to a
\* correct attempt; check changes neither document.
WrongAttemptLearnsNothing ==
  [][served("check") =>
       /\ isWrong(gameState, last'.body) =>
            /\ last'.resp.correct # "true"
            /\ last'.resp.solution = NoString
            /\ last'.resp.status = 200 => last'.resp.correct = "false"
       /\ last'.resp.solution # NoString =>
            /\ last'.body.roundId \in Rounds
            /\ toUpperCase(last'.body.solution) = last'.resp.solution
            /\ last'.resp.solution = gameState.rounds[last'.body.roundId].solution
       /\ UNCHANGED storeVars]_vars

\* C15 witness: a wrong attempt at the active round of a controlled game,
\* written in lower case, was answered correct = false.
WrongAttemptAnswered ==
  /\ last.action = "check"
  /\ gameState.gameMode = "controlled"
  /\ gameState.roundActive
  /\ last.body.roundId = gameState.currentRound
  /\ isWrong(gameState, last.body)
  /\ last.body.solution # toUpperCase(last.body.solution)
  /\ last.resp.correct = "false"

\* ------------------------------------------- progression (C11, C16, C17)
allCompleted(p) == \A r \in Rounds : p.roundsCompleted[r]

\* C11: end-round in controlled mode sets roundActive to false and leaves
\* the rest of the game state, currentRound included, unchanged; at round 6
\* it sets isFinished for exactly the players whose six roundsCompleted
\* flags are true and changes nothing else of the roster; below round 6 it
\* leaves the roster unchanged; outside controlled mode it fails and
\* changes nothing.
EndRoundContract ==
  [][served("end-round") =>
       IF gameState.gameMode = "controlled"
       THEN /\ last'.resp.status = 200
            /\ gameState' = [gameState EXCEPT !.roundActive = FALSE]
            /\ gameState'.currentRound = gameState.currentRound
            /\ DOMAIN players' = DOMAIN players
            /\ gameState.currentRound = NumRounds =>
                 \A u \in DOMAIN players :
                   players'[u] = IF allCompleted(players[u])
                                 THEN [players[u] EXCEPT !.isFinished = TRUE]
                                 ELSE players[u]
            /\ gameState.currentRound < NumRounds => players' = players
       ELSE /\ last'.resp.error = "WrongMode"
            /\ UNCHANGED storeVars]_vars

\* C11 witness: round 6 of a controlled game was ended with A having
\* completed the six rounds and B not.
LastRoundEnded ==
  /\ last.action = "end-round"
  /\ last.resp.status = 200
  /\ gameState.gameMode = "controlled"
  /\ gameState.currentRound = NumRounds
  /\ ~gameState.roundActive
  /\ DOMAIN players = {"A", "B"}
  /\ allCompleted(players["A"]) /\ players["A"].isFinished
  /\ ~allCompleted(players["B"]) /\ ~players["B"].isFinished

\* C16: in free mode a player who has completed rounds 1..5 but not round 6
\* is not finished, and has currentRound = 5 when round 5 was the one
\* completed last; a complete-round that leaves the six flags true leaves
\* the player finished.
FiveRoundsNotFinished ==
  gameState.gameMode = "free" =>
    \A u \in DOMAIN players :
      LET p == players[u]
      IN /\ ((\A r \in 1..5 : p.roundsCompleted[r]) /\ ~p.roundsCompleted[6]) =>
              /\ ~p.isFinished
              /\ (last.action = "complete-round" /\ last.body.username = u
                   /\ last.body.roundId = 5) => p.currentRound = 5
         /\ (last.action = "complete-round" /\ last.body.username = u
              /\ last.resp.status = 200 /\ allCompleted(p)) => p.isFinished

\* C17: a set-mode to free or controlled leaves currentRound 0, roundActive
\* false, roundWinners empty, revealedHints all zero and, of every player,
\* roundsCompleted all false, roundTimes all 0, currentRound 0 and
\* hasFoundCurrentRound false; a set-mode to anything else fails and
\* changes nothing.
SetModeResetsProgress ==
  [][served("set-mode") =>
       IF last'.body.mode \in {"free", "controlled"}
       THEN /\ last'.resp.status = 200
            /\ gameState'.gameMode = last'.body.mode
            /\ gameState'.currentRound = 0
            /\ ~gameState'.roundActive
            /\ gameState'.roundWinners = <<>>
            /\ \A r \in Rounds : gameState'.revealedHints[r] = 0
            /\ \A u \in DOMAIN players' :
                 /\ \A r \in Rounds : ~players'[u].roundsCompleted[r]
                 /\ \A r \in Rounds : players'[u].roundTimes[r] = 0
                 /\ players'[u].currentRound = 0
                 /\ ~players'[u].hasFoundCurrentRound
       ELSE /\ last'.resp.status = 400
            /\ UNCHANGED storeVars]_vars

\* ------------------------------------------------ resetAt (C18, C19)
\* C18: a reset leaves the default game state but for resetAt, an empty
\* roster, and a resetAt strictly greater than the one stored before.
ResetStampsLater ==
  [][served("reset") =>
       /\ gameState' = [createDefaultGameState EXCEPT !.resetAt = gameState'.resetAt]
       /\ players' = NoPlayers
       /\ gameState'.resetAt > gameState.resetAt]_vars

\* C19: reset, admin-logout and a create-game that replaces an existing
\* game each leave a resetAt different from the one stored before.
WipeChangesResetAt ==
  [][(\/ served("reset")
      \/ served("admin-logout")
      \/ (served("create-game") /\ last'.resp.status = 200 /\ gameExists)) =>
       gameState'.resetAt # gameState.resetAt]_vars

\* ------------------------------------------------ client logout (C20)
\* C20: whenever an observation of the authenticated client returns a
\* resetAt different from the one of its previous observation (null
\* included), the client is logged out in that step, and the resetAt test
\* logs it out in no other step.
ResetAtChangeLogsOut ==
  [][/\ (seen # NoneSeen /\ seen' # seen) => ~client'.isAuthenticated
     /\ (client.isAuthenticated /\ client'.logoutCause = "resetAt"
         /\ ~client'.isAuthenticated) => (seen # NoneSeen /\ seen' # seen)]_vars


\* C21: every request that succeeds and changes the game state or the roster
\* leaves every SSE connection registered at that moment with the fresh
\* snapshot as the last event sent to it.
PushFollowsMutation ==
  [][((gameState' # gameState \/ players' # players) /\ last'.resp.status = 200)
       => \A c \in DOMAIN sseClients :
            /\ c \in DOMAIN sseClients'
            /\ sseClients'[c] = [G |-> gameState', P |-> players']]_vars

\* a step in which performSync ran with the given outcome
synced(outcome) == client' # client /\ client'.outcome = outcome

\* C22: a failed state fetch of the polling hook leaves isAuthenticated,
\* user, session and accessCode of the store and the cached snapshot as they
\* were, and adds one to the error counter.
FailedFetchKeepsSession ==
  [][(client.hook = "poll" /\ synced("failed")) =>
       /\ client'.isAuthenticated = client.isAuthenticated
       /\ client'.user = client.user
       /\ client'.session = client.session
       /\ client'.accessCode = client.accessCode
       /\ client'.cache = client.cache
       /\ client'.errorCount = client.errorCount + 1]_vars

\* Two fetches in a row failed after one that filled the cache.
FailedWithCache ==
  /\ client.hook = "poll"
  /\ client.outcome = "failed"
  /\ client.cache.present
  /\ client.errorCount >= 2
  /\ client.isAuthenticated /\ client.user = "A"

\* C23: the poll interval is the base at a failure count of 0, doubles with
\* each further failure up to six times the base and never above
\* MAX_POLL_INTERVAL, never decreases while failures continue, is the base
\* again after a successful fetch, and an authenticated player always has a
\* timer armed, each with the interval of the count at that moment.
PollBackoff ==
  [][client.hook = "poll" =>
       LET i == getPollInterval(client.errorCount)
           j == getPollInterval(client'.errorCount)
       IN /\ client'.errorCount = 0 => j = BASE_POLL_INTERVAL
          /\ client'.errorCount = client.errorCount + 1 =>
                /\ j = Min(2 * i, MaxMultiplier * BASE_POLL_INTERVAL)
                /\ j >= i
                /\ j <= MAX_POLL_INTERVAL
          /\ synced("ok") => j = BASE_POLL_INTERVAL
          /\ client'.isAuthenticated =>
                /\ client'.interval >= BASE_POLL_INTERVAL
                /\ client'.interval \in {client.interval, i}]_vars

\* The failures went on after the interval had reached its cap.
BackoffCapped ==
  /\ client.hook = "poll"
  /\ client.errorCount >= 4
  /\ client.interval = MaxMultiplier * BASE_POLL_INTERVAL

\* C24: a successful poll that fetches the isStarted and startedAt of the
\* previous successful poll makes no call of setWaitingForStart.
WaitingSetOncePerChange ==
  [][(/\ client.hook = "poll"
      /\ synced("ok")
      /\ client.cache.present
      /\ gameState.isStarted = client.cache.isStarted
      /\ gameState.startedAt = client.cache.startedAt)
       => client'.calls = 0]_vars

\* a step in which checkReconnect took the given branch
reconnected(outcome) == client' # client /\ client'.outcome = outcome

\* C25: when checkReconnect finds the player's record on the server, the
\* session of the client afterwards has the currentRound, roundsCompleted
\* and completion of that record, whatever it held before.
ReconnectRestoresFromServer ==
  [][reconnected("known") =>
       /\ client'.session.present
       /\ client'.session.currentRound = players'[client.user].currentRound
       /\ client'.session.roundsCompleted = players'[client.user].roundsCompleted
       /\ client'.session.isComplete = players'[client.user].isFinished]_vars

SingleAdminSession ==
  [][gameState.adminSessionId # NoSession =>
       /\ (served("admin-login")
            /\ last'.body.sessionId \notin {NoSession, gameState.adminSessionId})
            => last'.resp = Err(403, "AdminAlreadyConnected")
       /\ \/ gameState'.adminSessionId = gameState.adminSessionId
          \/ /\ gameState'.adminSessionId = NoSession
             /\ last'.action \in {"admin-logout", "reset"}]_vars

\* C28: after a successful PUT, whatever its updates (an empty solution
\* included), every stored solution is six letters A..Z.
PutKeepsSolutionsNormalized ==
  [][(served("PUT") /\ last'.resp.status = 200) =>
       \A r \in DOMAIN gameState'.rounds :
         LET sol == gameState'.rounds[r].solution
         IN /\ Len(sol) = SolutionLen
            /\ \A i \in DOMAIN sol : includes(UpperLetters, sol[i])]_vars

\* C29: a refused request (launch-round in free mode, before the start or
\* after round 6; end-round in free mode; start of a started game;
\* reveal-hint at the cap or without roundId; set-mode with an invalid mode;
\* create-game with a short code; complete-round of an unknown player or of
\* a round outside 1..6) leaves the game state and the roster as they were.
RefusedLeavesStore ==
  [][(\E a \in {"launch-round", "end-round", "start", "reveal-hint", "set-mode",
                 "create-game", "complete-round"} : served(a)
       /\ last'.resp.status # 200)
     => UNCHANGED storeVars]_vars

\* launch-round was refused after the sixth round while that round was open.
LaunchRefusedAfterLast ==
  /\ last.action = "launch-round"
  /\ last.resp = Err(400, "AllRoundsDone")
  /\ gameState.currentRound = NumRounds
  /\ gameState.roundActive

\* C30: a request one of whose store writes failed is answered with a
\* failure, never with success.
FailedWriteAnsweredFailure == ~last.persisted => last.resp.status # 200

\* C31: stop sets isStarted and roundActive to false and leaves
\* currentRound, roundWinners, revealedHints, gameMode, accessCode and every
\* player record as they were.
StopKeepsProgress ==
  [][served("stop") =>
       /\ ~gameState'.isStarted
       /\ ~gameState'.roundActive
       /\ gameState'.currentRound = gameState.currentRound
       /\ gameState'.roundWinners = gameState.roundWinners
       /\ gameState'.revealedHints = gameState.revealedHints
       /\ gameState'.gameMode = gameState.gameMode
       /\ gameState'.accessCode = gameState.accessCode
       /\ players' = players]_vars

\* A started controlled round with a winner and a revealed hint was stopped.
StoppedWithProgress ==
  /\ last.action = "stop"
  /\ ~gameState.isStarted
  /\ gameState.currentRound >= 1
  /\ gameState.roundWinners # <<>>
  /\ gameState.revealedHints[1] > 0
  /\ gameState.accessCode # NoCode

\* C32: between two successful launch-round requests roundWinners only
\* grows at its end: in every step that is not a successful launch-round
\* the list before is a prefix of the list after.
WinnersAppendOnly ==
  [][~(served("launch-round") /\ last'.resp.status = 200) =>
       /\ Len(gameState.roundWinners) <= Len(gameState'.roundWinners)
       /\ \A i \in DOMAIN gameState.roundWinners :
            gameState'.roundWinners[i] = gameState.roundWinners[i]]_vars

\* C33: while the game is started no request adds a username to the
\* roster: in a step from a started state to a started state the roster
\* keys after are among the roster keys before.
StartedRosterClosed ==
  [][(gameState.isStarted /\ gameState'.isStarted) =>
       DOMAIN players' \subseteq DOMAIN players]_vars

\* C34: every player with isFinished has all six roundsCompleted flags.
FinishedHaveAllRounds ==
  \A u \in DOMAIN players :
    players[u].isFinished => \A r \in Rounds : players[u].roundsCompleted[r]

\* C35: every username in roundWinners is a key of the roster.
WinnersAreInRoster ==
  \A i \in DOMAIN gameState.roundWinners :
    gameState.roundWinners[i] \in DOMAIN players

\* C36: a round is active only in controlled mode and at a round 1..6.
ActiveRoundIsControlled ==
  gameState.roundActive =>
    /\ gameState.gameMode = "controlled"
    /\ 1 <= gameState.currentRound
    /\ gameState.currentRound <= NumRounds

\* The sixth round was launched and is open in a controlled game.
RoundOpen ==
  /\ gameState.roundActive
  /\ gameState.gameMode = "controlled"
  /\ gameState.currentRound = NumRounds
  /\ last.action = "launch-round"

\* C37: a round is active only in a started game.
ActiveRoundIsStarted == gameState.roundActive => gameState.isStarted

\* C38: in controlled mode a username enters roundWinners, or a player's
\* hasFoundCurrentRound is raised, only by a complete-round for the current
\* round served while the game is started and the round active.
WinnerOnlyOfActiveRound ==
  [][(/\ gameState.gameMode = "controlled"
      /\ \E u \in DOMAIN players' :
           \/ includes(gameState'.roundWinners, u)
                /\ ~includes(gameState.roundWinners, u)
           \/ /\ u \in DOMAIN players
              /\ players'[u].hasFoundCurrentRound
              /\ ~players[u].hasFoundCurrentRound)
     => /\ served("complete-round")
        /\ last'.body.roundId = gameState.currentRound
        /\ gameState.isStarted
        /\ gameState.roundActive]_vars

\* C39: nothing sent to a player carries a solution: neither the rounds of
\* the public GET response nor the snapshot held by any SSE connection (the
\* one sent on registration or the last one pushed).
NoSolutionSent ==
  /\ \A r \in DOMAIN publicRounds(gameState) :
       "solution" \notin DOMAIN publicRounds(gameState)[r]
  /\ \A c \in DOMAIN sseClients :
       \A r \in DOMAIN sseClients[c].G.rounds :
         "solution" \notin DOMAIN sseClients[c].G.rounds[r]

\* C40: a failed read never destroys stored data: under requests that
\* remove no player and do not end the game (join, heartbeat, complete-round,
\* start, stop), whose reads may fail, every stored player is still
\* stored after the request, with the rounds it had completed, and the game
\* keeps its access code and its mode.
FailedReadKeepsData ==
  [][/\ \A u \in DOMAIN players :
          /\ u \in DOMAIN players'
          /\ \A r \in Rounds :
               players[u].roundsCompleted[r] => players'[u].roundsCompleted[r]
     /\ gameState'.accessCode = gameState.accessCode
     /\ gameState'.gameMode = gameState.gameMode]_vars

====
